---- MODULE Spec2Model ----
(***************************************************************************)
(* Model of terraform-provider-httpx: the resource handlers (Create, Read, *)
(* Update, Delete), the retry/polling engine ExecuteRequestWithRetry, the  *)
(* destroy-time template interpolation and the expectation validator.      *)
(*                                                                         *)
(* One behaviour is one operation the host runs on one resource: the       *)
(* handler reads its model, builds the request, drives the retry loop one  *)
(* transport attempt and one sleep at a time, and finishes by writing (or  *)
(* not writing) the persisted state entry.                                 *)
(*                                                                         *)
(* Go values are represented as follows.  A nullable value (a nil pointer, *)
(* a types.String/Int64/List that IsNull) is a sequence of length <= 1:    *)
(* None is <<>>, Some(x) is <<x>>.  A string that may hold placeholders is *)
(* a sequence of tokens; the tokens "${self.id}" and "${self.outputs.K}"   *)
(* stand for those exact substrings, any other token for ordinary text.    *)
(* The provider's TLS material is taken to be well formed, so that         *)
(* client.NewHTTPClient succeeds and every ExecuteRequest reaches the      *)
(* transport.                                                              *)
(***************************************************************************)
EXTENDS Integers, Sequences, FiniteSets, TLC

VARIABLES
    op,               \* the handler the host invoked
    model,            \* HttpxRequestResourceModel read from the plan / prior state
    state,            \* the persisted state entry: None once removed
    prior,            \* the state entry as the host handed it to the handler
    diags,            \* resp.Diagnostics: summaries of the error diagnostics
    pc,               \* position of the handler
    ctxFrom,          \* timeouts entry bounding the retry loop's context
    ctxDone,          \* the context's Done channel is closed
    httpReq,          \* request built by BuildRequest
    retryConfig,      \* *RetryConfig handed to the engine
    retryUntilConfig, \* *RetryUntilConfig handed to the engine
    attempt,          \* loop variable of ExecuteRequestWithRetry
    lastErr,          \* engine local
    lastResult,       \* engine local
    retryAfter,       \* engine local
    result,           \* result of the current attempt
    delay,            \* delay being slept, in ms
    ret,              \* what ExecuteRequestWithRetry returned
    calls,            \* transport invocations made in this operation
    responded,        \* some transport invocation of this operation returned no error
    sleeps            \* sleeps entered in this operation

vars == <<op, model, state, prior, diags, pc, ctxFrom, ctxDone, httpReq, retryConfig,
          retryUntilConfig, attempt, lastErr, lastResult, retryAfter, result,
          delay, ret, calls, responded, sleeps>>

----------------------------------------------------------------------------
\* Bounds of the model.

MaxAttempts == 3
RandBits == 1
MaxTemplated == 2
\* The longest response body, in bytes, and the longest error text, in words.
MaxBody == 3
MaxErrorText == 3
\* The most extract blocks of a request.
MaxRules == 2
\* The longest text given to InterpolateString, in words.
MaxText == 2
\* The longest json_path given to evaluateJsonPath, in characters.
MaxPath == 4

----------------------------------------------------------------------------
\* Nullable values.

None == <<>>
Some(x) == <<x>>
IsNull(v) == v = <<>>
Value(v) == v[1]

RECURSIVE Pow2(_)
Pow2(n) == IF n <= 0 THEN 1 ELSE 2 * Pow2(n - 1)

SeqToSet(s) == {s[i] : i \in 1..Len(s)}

----------------------------------------------------------------------------
\* int64 arithmetic.  A 64-bit word is four 16-bit limbs, least significant
\* first, read in two's complement; the operations wrap as Go's do.

W == 65536
HalfW == 32768
MaxInt == 2147483647

Norm64(x) ==
    LET t2 == x[2] + (x[1] \div W)
        t3 == x[3] + (t2 \div W)
        t4 == x[4] + (t3 \div W)
    IN <<x[1] % W, t2 % W, t3 % W, t4 % W>>

\* The word of a natural number below 2^31.
I64(n) == <<n % W, n \div W, 0, 0>>

Add64(a, b) == Norm64(<<a[1] + b[1], a[2] + b[2], a[3] + b[3], a[4] + b[4]>>)
Neg64(a) == Add64(<<W - 1 - a[1], W - 1 - a[2], W - 1 - a[3], W - 1 - a[4]>>, I64(1))
IsNeg64(a) == a[4] >= HalfW
Abs64(a) == IF IsNeg64(a) THEN Neg64(a) ELSE a

\* a * k for 0 <= k < 2^15.
MulSmall64(a, k) == Norm64(<<a[1] * k, a[2] * k, a[3] * k, a[4] * k>>)

\* a * 2^k for 0 <= k.
Shl64(a, k) ==
    LET r == k % 16
        m == MulSmall64(MulSmall64(a, Pow2(r \div 2)), Pow2(r - (r \div 2)))
    IN [i \in 1..4 |-> IF i - (k \div 16) >= 1 THEN m[i - (k \div 16)] ELSE 0]

\* a * b for 0 <= b < 2^30.
Mul64(a, b) == Add64(MulSmall64(a, b % HalfW), Shl64(MulSmall64(a, b \div HalfW), 15))

\* Unsigned quotient and remainder of a by d, 0 < d < 2^15.
DivMod64(a, d) ==
    LET q4 == a[4] \div d
        n3 == (a[4] % d) * W + a[3]
        n2 == (n3 % d) * W + a[2]
        n1 == (n2 % d) * W + a[1]
    IN [q |-> <<n1 \div d, n2 \div d, n3 \div d, q4>>, r |-> n1 % d]

\* a < b as signed words.
Less64(a, b) ==
    IF IsNeg64(a) # IsNeg64(b) THEN IsNeg64(a)
    ELSE IsNeg64(Add64(a, Neg64(b)))

\* The value of a word as an integer, clamped to -1 .. MaxInt.
Clamp64(a) ==
    IF IsNeg64(a) THEN -1
    ELSE IF a[4] # 0 \/ a[3] # 0 \/ a[2] >= HalfW THEN MaxInt
    ELSE a[2] * W + a[1]

----------------------------------------------------------------------------
\* JSON documents, as json.Unmarshal into interface{} yields them: a
\* string, a float64, a bool, nil, a map or a slice.

JString(s) == [t |-> "string", str |-> s]
JNumber(n) == [t |-> "number", num |-> n]
JBool(b) == [t |-> "bool", bool |-> b]
JNull == [t |-> "null"]
JObject(f) == [t |-> "object", fields |-> f]
JArray(q) == [t |-> "array", elems |-> q]

\* A response body: empty, text that is not JSON, or a JSON document.
EmptyBody == [kind |-> "empty"]
TextBody == [kind |-> "text"]
JsonBody(v) == [kind |-> "json", value |-> v]

\* json.Unmarshal of a body.
Unmarshal(body) ==
    IF body.kind = "json" THEN [ok |-> TRUE, value |-> body.value]
    ELSE [ok |-> FALSE, value |-> JNull]

\* A segment of a dot path: a key, or a key (possibly empty) and an index.
Key(k) == [key |-> k, index |-> None]
Indexed(k, i) == [key |-> k, index |-> Some(i)]

PathError == [ok |-> FALSE, value |-> JNull]

\* One segment of evaluateJsonPath applied to the current value.
evaluateSegment(current, seg) ==
    LET afterKey ==
            IF seg.key = "" /\ ~IsNull(seg.index) THEN [ok |-> TRUE, value |-> current]
            ELSE IF current.t = "object" /\ seg.key \in DOMAIN current.fields
            THEN [ok |-> TRUE, value |-> current.fields[seg.key]]
            ELSE PathError
    IN IF ~afterKey.ok \/ IsNull(seg.index) THEN afterKey
       ELSE IF afterKey.value.t = "array" /\ Value(seg.index) >= 0
               /\ Value(seg.index) < Len(afterKey.value.elems)
       THEN [ok |-> TRUE, value |-> afterKey.value.elems[Value(seg.index) + 1]]
       ELSE PathError

RECURSIVE evaluateJsonPath(_, _)
evaluateJsonPath(data, path) ==
    IF path = <<>> THEN [ok |-> TRUE, value |-> data]
    ELSE LET step == evaluateSegment(data, Head(path))
         IN IF step.ok THEN evaluateJsonPath(step.value, Tail(path)) ELSE step

RECURSIVE Pow10(_)
Pow10(n) == IF n <= 0 THEN 1 ELSE 10 * Pow10(n - 1)

\* The number of decimal digits of a natural number.
RECURSIVE DigitCount(_)
DigitCount(n) == IF n < 10 THEN 1 ELSE 1 + DigitCount(n \div 10)

\* A natural number without its trailing zeros.
RECURSIVE StripZeros(_)
StripZeros(n) == IF n = 0 \/ n % 10 # 0 THEN n ELSE StripZeros(n \div 10)

\* The decimal digits of a natural number in the given width.
RECURSIVE ZeroPadded(_, _)
ZeroPadded(n, width) ==
    IF width <= 0 THEN ""
    ELSE ZeroPadded(n \div 10, width - 1) \o ToString(n % 10)

\* strconv's %g with the shortest precision for a float64 without a
\* fraction (the bodies hold no number below -10^6): the decimal digits
\* below 10^6 (the exponent is compared with
\* the precision 6), from there on the %e form, d.ddde+XX with the
\* trailing zeros of the mantissa removed.
FormatG(n) ==
    IF n < 0 \/ DigitCount(n) - 1 < 6 THEN ToString(n)
    ELSE LET exp == DigitCount(n) - 1
             mantissa == StripZeros(n)
             width == DigitCount(mantissa) - 1
         IN  ToString(mantissa \div Pow10(width))
             \o (IF width = 0 THEN ""
                 ELSE "." \o ZeroPadded(mantissa % Pow10(width), width))
             \o "e+" \o ZeroPadded(exp, 2)

\* fmt.Sprintf("%v", v) of a scalar.
SprintV(v) ==
    CASE v.t = "string" -> v.str
      [] v.t = "number" -> FormatG(v.num)
      [] v.t = "bool" -> IF v.bool THEN "true" ELSE "false"
      [] v.t = "null" -> "<nil>"
      [] v.t = "object" -> "map[...]"
      [] OTHER -> "[...]"

\* json.Unmarshal of an expected literal of the model: the literals that
\* are JSON documents, and what they parse to.
JsonLiterals ==
    [l \in {"5", "5.0", "\"5\"", "true", "\"true\"", "null"} |->
       CASE l \in {"5", "5.0"} -> JNumber(5)
         [] l = "\"5\"" -> JString("5")
         [] l = "true" -> JBool(TRUE)
         [] l = "\"true\"" -> JString("true")
         [] OTHER -> JNull]

UnmarshalLiteral(l) ==
    IF l \in DOMAIN JsonLiterals THEN [ok |-> TRUE, value |-> JsonLiterals[l]]
    ELSE [ok |-> FALSE, value |-> JNull]

----------------------------------------------------------------------------
\* Header names.

\* Unicode case folding on the header names of the model; a name without
\* upper-case letters folds to itself.
ToLower(name) ==
    CASE name = "Retry-After" -> "retry-after"
      [] name \in {"X-Id", "X-ID"} -> "x-id"
      [] name \in {"Content-Type", "CONTENT-TYPE"} -> "content-type"
      [] name = "ETag" -> "etag"
      [] name = "Authorization" -> "authorization"
      [] name = "X-Tok" -> "x-tok"
      [] OTHER -> name

EqualFold(a, b) == ToLower(a) = ToLower(b)

----------------------------------------------------------------------------
\* Responses and the transport.

NoHeaders == [h \in {} |-> ""]

\* Values of a Retry-After header: integer seconds (small, or any int64
\* word), a date in one of the layouts parseRetryAfter tries or in another
\* one, delta seconds after time.Now(), white space only, or unparsable text.
RetryAfterSecs(n) == [kind |-> "secs", n |-> n]
RetryAfterSecs64(w) == [kind |-> "secs64", w |-> w]
RetryAfterDate(layout, delta) == [kind |-> "date", layout |-> layout, delta |-> delta]
RetryAfterBlank == [kind |-> "blank"]
RetryAfterBad == [kind |-> "bad"]
RetryAfterEmpty == [kind |-> "empty"]

WithRetryAfter == [h \in {"Retry-After"} |-> RetryAfterSecs(2)]

\* What one transport round trip can do: fail in Do, fail while the body is
\* read, or deliver a response.
Outcomes ==
    {[kind |-> "do_error", status |-> 0, headers |-> NoHeaders],
     [kind |-> "read_error", status |-> 200, headers |-> NoHeaders],
     [kind |-> "response", status |-> 200, headers |-> NoHeaders],
     [kind |-> "response", status |-> 503, headers |-> NoHeaders],
     [kind |-> "response", status |-> 503, headers |-> WithRetryAfter]}

\* Whether the request has a body of which the reader no longer holds all:
\* http.Client.Do reads req.Body and sends a request as it finds it, the
\* reader is never rewound.
BodyDrained(req) == req.Body # <<>> /\ req.BodyReader # req.Body

\* What a round trip of the request can do: with the body drained the
\* transport cannot write the announced content length and Do fails.
OutcomesOf(req) ==
    IF BodyDrained(req) THEN {out \in Outcomes : out.kind = "do_error"}
    ELSE Outcomes

\* What is left in the body reader after the round trip: nothing once the
\* request was written; a round trip that fails in Do may not have read it.
ReadersAfter(req, out) ==
    IF out.kind = "do_error" THEN {req.BodyReader, <<>>} ELSE {<<>>}

ExecuteRequest(out) ==
    CASE out.kind = "do_error" ->
           [result |-> [StatusCode |-> 0, Headers |-> NoHeaders, Body |-> EmptyBody,
                        AttemptCount |-> 1, Error |-> "transport"],
            err |-> Some("request failed")]
      [] out.kind = "read_error" ->
           [result |-> [StatusCode |-> out.status, Headers |-> NoHeaders,
                        Body |-> EmptyBody, AttemptCount |-> 1, Error |-> "read"],
            err |-> Some("failed to read response body")]
      [] OTHER ->
           [result |-> [StatusCode |-> out.status, Headers |-> out.headers,
                        Body |-> EmptyBody, AttemptCount |-> 1, Error |-> ""],
            err |-> None]

\* Text as a sequence of words; a response body as a sequence of bytes.
SeqsUpTo(S, n) == UNION {[1..k -> S] : k \in 0..n}

\* io.LimitReader followed by io.ReadAll: at most maxBytes bytes are read.
LimitReader(body, maxBytes) ==
    IF maxBytes <= 0 THEN <<>>
    ELSE IF Len(body) <= maxBytes THEN body
    ELSE SubSeq(body, 1, maxBytes)

Sentinel == "... [TRUNCATED]"

TruncateString(text, maxLen) ==
    IF Len(text) <= maxLen THEN text
    ELSE Append(SubSeq(text, 1, maxLen), Sentinel)

\* strings.Contains on the lower-cased text and pattern; a pattern is one
\* word of the text.
ContainsFold(text, pattern) ==
    \E i \in 1..Len(text) : ToLower(text[i]) = ToLower(pattern)

\* strings.ReplaceAll: the occurrences in the case of the pattern.
ReplaceAll(text, old, new) ==
    [i \in 1..Len(text) |-> IF text[i] = old THEN new ELSE text[i]]

RECURSIVE RedactError(_, _)
RedactError(errMsg, redactList) ==
    IF redactList = <<>> THEN errMsg
    ELSE RedactError(IF ContainsFold(errMsg, Head(redactList))
                     THEN ReplaceAll(errMsg, Head(redactList), "[REDACTED]")
                     ELSE errMsg,
                     Tail(redactList))

DefaultRedactHeaders == <<"Authorization", "Proxy-Authorization", "X-Api-Key">>

\* What the transport does with a request: Do fails with an error text, or
\* delivers a response with a body.
WireOutcomes ==
    {[kind |-> "do_error", status |-> 0, headers |-> NoHeaders, body |-> <<>>, text |-> t] :
       t \in SeqsUpTo({"Authorization", "authorization", "Bearer ", "secret"},
                      MaxErrorText)}
    \cup {[kind |-> "response", status |-> 200, headers |-> NoHeaders, body |-> b,
            text |-> <<>>] :
            b \in SeqsUpTo({"a", "b"}, MaxBody)}

\* ExecuteRequest with the response body and the error text: the body is
\* read through the limit and truncated, the error of Do is redacted.
ExecuteRequestReading(out, cfg) ==
    IF out.kind = "do_error"
    THEN [result |-> [StatusCode |-> 0, Headers |-> NoHeaders, Body |-> <<>>,
                      AttemptCount |-> 1,
                      Error |-> RedactError(out.text, cfg.RedactHeaders)],
          err |-> Some("request failed")]
    ELSE LET bodyBytes == LimitReader(out.body, cfg.MaxResponseBodyBytes) IN
         [result |-> [StatusCode |-> out.status, Headers |-> out.headers,
                      Body |-> IF Len(bodyBytes) >= cfg.MaxResponseBodyBytes
                               THEN TruncateString(bodyBytes, cfg.MaxResponseBodyBytes)
                               ELSE bodyBytes,
                      AttemptCount |-> 1, Error |-> <<>>],
          err |-> None]

----------------------------------------------------------------------------
\* Retry policy.

DefaultRetryOnStatusCodes == <<408, 429, 500, 502, 503, 504>>

\* BuildRetryConfig with the nil check lost: a missing retry block yields the
\* default policy.
BuildRetryConfigDefaulting(retryModel) ==
    LET m == IF IsNull(retryModel)
             THEN [Attempts |-> None, MinDelayMs |-> None, MaxDelayMs |-> None,
                   Backoff |-> None, Jitter |-> None, RetryOnStatusCodes |-> None,
                   RespectRetryAfter |-> None]
             ELSE Value(retryModel)
    IN Some([Attempts |-> IF IsNull(m.Attempts) THEN 20 ELSE Value(m.Attempts),
             MinDelayMs |-> IF IsNull(m.MinDelayMs) THEN 250 ELSE Value(m.MinDelayMs),
             MaxDelayMs |-> IF IsNull(m.MaxDelayMs) THEN 5000 ELSE Value(m.MaxDelayMs),
             Backoff |-> IF IsNull(m.Backoff) \/ Value(m.Backoff) = ""
                         THEN "exponential" ELSE Value(m.Backoff),
             Jitter |-> IF IsNull(m.Jitter) THEN TRUE ELSE Value(m.Jitter),
             RetryOnStatusCodes |->
                 IF IsNull(m.RetryOnStatusCodes) \/ Len(Value(m.RetryOnStatusCodes)) = 0
                 THEN <<408, 429, 500, 502, 503, 504>> ELSE Value(m.RetryOnStatusCodes),
             RespectRetryAfter |-> IF IsNull(m.RespectRetryAfter) THEN TRUE
                                   ELSE Value(m.RespectRetryAfter)])

BuildRetryConfig(retryModel) ==
    IF IsNull(retryModel) THEN None
    ELSE LET m == Value(retryModel) IN
         Some([Attempts |-> IF IsNull(m.Attempts) THEN 20 ELSE Value(m.Attempts),
               MinDelayMs |-> IF IsNull(m.MinDelayMs) THEN 250 ELSE Value(m.MinDelayMs),
               MaxDelayMs |-> IF IsNull(m.MaxDelayMs) THEN 5000 ELSE Value(m.MaxDelayMs),
               Backoff |-> IF IsNull(m.Backoff) \/ Value(m.Backoff) = ""
                           THEN "exponential" ELSE Value(m.Backoff),
               Jitter |-> IF IsNull(m.Jitter) THEN TRUE ELSE Value(m.Jitter),
               RetryOnStatusCodes |->
                   IF IsNull(m.RetryOnStatusCodes) \/ Len(Value(m.RetryOnStatusCodes)) = 0
                   THEN DefaultRetryOnStatusCodes ELSE Value(m.RetryOnStatusCodes),
               RespectRetryAfter |-> IF IsNull(m.RespectRetryAfter) THEN TRUE
                                     ELSE Value(m.RespectRetryAfter)])

\* The defaults of a retry block in place of the polling defaults.
PollingDefaultAsRetryBlock ==
    [Attempts |-> 20, MinDelayMs |-> 250, MaxDelayMs |-> 5000,
     Backoff |-> "exponential", Jitter |-> TRUE,
     RetryOnStatusCodes |-> DefaultRetryOnStatusCodes, RespectRetryAfter |-> TRUE]

\* The policy the engine substitutes when retry_until is set without retry.
PollingDefaultRetryConfig ==
    [Attempts |-> 60, MinDelayMs |-> 1000, MaxDelayMs |-> 5000,
     Backoff |-> "exponential", Jitter |-> TRUE, RetryOnStatusCodes |-> <<>>,
     RespectRetryAfter |-> TRUE]

EngineRetryConfig(rcOpt, rucOpt) ==
    IF ~IsNull(rucOpt) /\ IsNull(rcOpt) THEN PollingDefaultRetryConfig ELSE Value(rcOpt)

\* The loop bound with `attempt <= attempts + 1` for `attempt <= attempts`.
EngineAttemptsOneMore(rc) == IF rc.Attempts <= 0 THEN 2 ELSE rc.Attempts + 1

EngineAttempts(rc) == IF rc.Attempts <= 0 THEN 1 ELSE rc.Attempts

\* ShouldRetry without the transport-error case.
ShouldRetryStatusOnly(rc, isErr, statusCode) ==
    statusCode \in SeqToSet(rc.RetryOnStatusCodes)

ShouldRetry(rc, isErr, statusCode) ==
    isErr \/ statusCode \in SeqToSet(rc.RetryOnStatusCodes)

\* time.Duration(ms) * time.Millisecond, in nanoseconds.
Millis64(ms) == MulSmall64(MulSmall64(ms, 1000), 1000)

\* time.Duration(seconds) * time.Second, in nanoseconds.
Seconds64(secs) == MulSmall64(Millis64(secs), 1000)

\* The word of an integer of magnitude below 2^31.
Word64(n) == IF n >= 0 THEN I64(n) ELSE Neg64(I64(-n))

\* The layouts parseRetryAfter tries.
DateLayouts == {"RFC1123", "RFC1123Z", "RFC822", "RFC822Z", "RFC850", "ANSIC"}

\* The duration in nanoseconds, or the error.
parseRetryAfter(ra) ==
    CASE ra.kind = "secs" -> [ok |-> TRUE, ns |-> Seconds64(Word64(ra.n))]
      [] ra.kind = "secs64" -> [ok |-> TRUE, ns |-> Seconds64(ra.w)]
      [] ra.kind = "date" /\ ra.layout \in DateLayouts ->
           IF ra.delta > 0 THEN [ok |-> TRUE, ns |-> Seconds64(I64(ra.delta))]
           ELSE [ok |-> FALSE, ns |-> I64(0)]
      [] OTHER -> [ok |-> FALSE, ns |-> I64(0)]

\* int64(float64(delayMs) * 0.25 * r) for r = roll / 2^RandBits: the product
\* is exact in float64 for the delays of the model, and the conversion
\* truncates toward zero.
Jitter64(delayMs, roll) ==
    LET d == 4 * Pow2(RandBits)
        dm == DivMod64(Abs64(delayMs), d)
        mag == Add64(MulSmall64(dm.q, roll), I64((dm.r * roll) \div d))
    IN IF IsNeg64(delayMs) THEN Neg64(mag) ELSE mag

\* The base delay of attempt n before the cap, as an int64.
BaseDelay64(rc, n) ==
    CASE rc.Backoff = "exponential" -> Mul64(Shl64(I64(1), n - 1), rc.MinDelayMs)
      [] rc.Backoff = "linear" -> Mul64(I64(rc.MinDelayMs), n)
      [] OTHER -> I64(rc.MinDelayMs)

\* The time.Duration CalculateDelay returns, in nanoseconds as an int64.
DelayNanos64(rc, n, ra, roll) ==
    IF rc.RespectRetryAfter /\ ra.kind # "empty" /\ parseRetryAfter(ra).ok
    THEN parseRetryAfter(ra).ns
    ELSE LET base == BaseDelay64(rc, n)
             delayMs == IF Less64(I64(rc.MaxDelayMs), base) THEN I64(rc.MaxDelayMs)
                        ELSE base
         IN IF rc.Jitter
            THEN Add64(Millis64(delayMs), Millis64(Jitter64(delayMs, roll)))
            ELSE Millis64(delayMs)

\* CalculateDelay in milliseconds, clamped to -1 .. MaxInt: -1 is a negative
\* duration.
CalculateDelay(rc, n, ra, roll) ==
    LET ns == DelayNanos64(rc, n, ra, roll)
    IN IF IsNeg64(ns) THEN -1
       ELSE Clamp64(DivMod64(DivMod64(ns, 1000).q, 1000).q)

----------------------------------------------------------------------------
\* Poll condition.

\* A map without entries.
NoEntries == [k \in {} |-> ""]

BuildRetryUntilConfig(retryUntilModel) ==
    IF IsNull(retryUntilModel) THEN None
    ELSE LET m == Value(retryUntilModel) IN
         Some([StatusCodes |-> IF IsNull(m.StatusCodes) THEN <<>> ELSE Value(m.StatusCodes),
               JsonPathEquals |-> IF IsNull(m.JsonPathEquals) THEN NoEntries
                                  ELSE Value(m.JsonPathEquals),
               HeaderEquals |-> IF IsNull(m.HeaderEquals) THEN NoEntries
                                ELSE Value(m.HeaderEquals),
               BodyRegex |-> IF IsNull(m.BodyRegex) THEN "" ELSE Value(m.BodyRegex)])

\* The comparison of checkJsonPathConditions with the string forms of both
\* sides compared even when the expected literal is JSON replaced by a
\* comparison of the parsed values.
valueMatchesStructurally(actual, expected) ==
    IF UnmarshalLiteral(expected).ok
    THEN UnmarshalLiteral(expected).value = actual
    ELSE SprintV(actual) = expected

\* The comparison of checkJsonPathConditions: an expected literal that is
\* JSON is compared by the string forms of its parsed value and of the
\* actual value, any other literal with the string form of the actual value.
valueMatches(actual, expected) ==
    IF UnmarshalLiteral(expected).ok
    THEN SprintV(UnmarshalLiteral(expected).value) = SprintV(actual)
    ELSE SprintV(actual) = expected

checkJsonPathConditions(body, conditions) ==
    /\ body.kind # "empty"
    /\ Unmarshal(body).ok
    /\ \A path \in DOMAIN conditions :
         /\ evaluateJsonPath(Unmarshal(body).value, path).ok
         /\ valueMatches(evaluateJsonPath(Unmarshal(body).value, path).value,
                         conditions[path])

checkHeaderConditions(headers, conditions) ==
    \A headerName \in DOMAIN conditions :
        \E k \in DOMAIN headers :
            EqualFold(k, headerName) /\ headers[k] = conditions[headerName]

\* regexp.MatchString on the patterns of the model: "(" does not compile,
\* ".*" matches every body, "id" matches the bodies that have the text id.
RegexCompiles(pattern) == pattern # "("
RegexMatches(pattern, body) ==
    \/ pattern = ".*"
    \/ pattern = "id" /\ body.kind = "json" /\ body.value.t = "object"
         /\ "id" \in DOMAIN body.value.fields

\* EvaluateRetryUntil with the first unsatisfied sub-condition alone deciding.
EvaluateRetryUntilStatusOnly(rucOpt, res) ==
    IF IsNull(rucOpt) THEN [satisfied |-> TRUE, unsatisfied |-> <<>>]
    ELSE LET ruc == Value(rucOpt)
             u1 == IF Len(ruc.StatusCodes) > 0 /\ res.StatusCode \notin SeqToSet(ruc.StatusCodes)
                   THEN <<"status">> ELSE <<>>
         IN [satisfied |-> Len(u1) = 0, unsatisfied |-> u1]

\* The unsatisfied reasons, in the order the code appends them.
EvaluateRetryUntil(rucOpt, res) ==
    IF IsNull(rucOpt) THEN [satisfied |-> TRUE, unsatisfied |-> <<>>]
    ELSE LET ruc == Value(rucOpt)
             u1 == IF Len(ruc.StatusCodes) > 0 /\ res.StatusCode \notin SeqToSet(ruc.StatusCodes)
                   THEN <<"status">> ELSE <<>>
             u2 == IF DOMAIN ruc.JsonPathEquals # {}
                      /\ ~checkJsonPathConditions(res.Body, ruc.JsonPathEquals)
                   THEN <<"json_path">> ELSE <<>>
             u3 == IF DOMAIN ruc.HeaderEquals # {}
                      /\ ~checkHeaderConditions(res.Headers, ruc.HeaderEquals)
                   THEN <<"header">> ELSE <<>>
             u4 == IF ruc.BodyRegex = "" THEN <<>>
                   ELSE IF ~RegexCompiles(ruc.BodyRegex) THEN <<"invalid regex">>
                   ELSE IF ~RegexMatches(ruc.BodyRegex, res.Body) THEN <<"regex">>
                   ELSE <<>>
             u == u1 \o u2 \o u3 \o u4
         IN [satisfied |-> Len(u) = 0, unsatisfied |-> u]

----------------------------------------------------------------------------
\* One iteration of the loop of ExecuteRequestWithRetry, from the transport
\* call to the point where the iteration returns or blocks in its select.
\* next = "return" carries the returned (result, err); next = "sleep" carries
\* the delay and the locals as the iteration leaves them.

RetryAfterOf(rc, res, ra) ==
    IF rc.RespectRetryAfter /\ "Retry-After" \in DOMAIN res.Headers
    THEN res.Headers["Retry-After"] ELSE ra

LoopIteration(rc, rucOpt, n, attempts, er, ra, le, lr, roll) ==
    LET res == er.result
        ev == EvaluateRetryUntil(rucOpt, res)
        success == [next |-> "return", result |-> [res EXCEPT !.AttemptCount = n],
                    err |-> None, lastErr |-> le, lastResult |-> lr,
                    retryAfter |-> ra, delay |-> 0]
    IN
    IF ~IsNull(er.err) THEN
        IF ~ShouldRetry(rc, TRUE, 0) \/ n >= attempts
        THEN [next |-> "return", result |-> res, err |-> er.err,
              lastErr |-> er.err, lastResult |-> Some(res),
              retryAfter |-> ra, delay |-> 0]
        ELSE [next |-> "sleep", result |-> res, err |-> er.err,
              lastErr |-> er.err, lastResult |-> Some(res),
              retryAfter |-> ra,
              delay |-> CalculateDelay(rc, n, RetryAfterEmpty, roll)]
    ELSE IF ~IsNull(rucOpt) /\ ~ev.satisfied /\ n < attempts
    THEN [next |-> "sleep", result |-> res, err |-> None,
          lastErr |-> le, lastResult |-> lr,
          retryAfter |-> RetryAfterOf(rc, res, ra),
          delay |-> CalculateDelay(rc, n, RetryAfterOf(rc, res, ra), roll)]
    ELSE IF ~IsNull(rucOpt) /\ ev.satisfied
    THEN success
    ELSE IF IsNull(rucOpt) /\ ShouldRetry(rc, FALSE, res.StatusCode) /\ n < attempts
    THEN [next |-> "sleep", result |-> res, err |-> None,
          lastErr |-> le, lastResult |-> lr,
          retryAfter |-> RetryAfterOf(rc, res, ra),
          delay |-> CalculateDelay(rc, n, RetryAfterOf(rc, res, ra), roll)]
    ELSE success

\* The code after the loop.
Exhausted(rucOpt, attempts, le, lr) ==
    IF ~IsNull(lr)
    THEN IF ~IsNull(rucOpt)
         THEN [result |-> Some([Value(lr) EXCEPT !.AttemptCount = attempts]),
               err |-> Some("exhausted retry attempts, conditions not met")]
         ELSE [result |-> Some([Value(lr) EXCEPT !.AttemptCount = attempts]),
               err |-> Some("exhausted retry attempts, last status")]
    ELSE IF ~IsNull(le)
    THEN [result |-> Some([StatusCode |-> 0, Headers |-> NoHeaders, Body |-> EmptyBody,
                           AttemptCount |-> attempts, Error |-> Value(le)]),
          err |-> Some("exhausted retry attempts: wrapped")]
    ELSE [result |-> None, err |-> Some("exhausted retry attempts")]

----------------------------------------------------------------------------
\* Strings with placeholders, and the destroy-time interpolation.

Keys == {"k1", "k2"}
IdToken == "${self.id}"
OutputsToken(k) == "${self.outputs." \o k \o "}"
IsOutputsToken(t) == \E k \in Keys : t = OutputsToken(k)
KeyOf(t) == CHOOSE k \in Keys : t = OutputsToken(k)

\* Keys of the ${self.outputs.KEY} matches of text that outputs lacks, in order.
RECURSIVE MissingKeys(_, _)
MissingKeys(text, outputs) ==
    IF text = <<>> THEN <<>>
    ELSE IF IsOutputsToken(Head(text)) /\ KeyOf(Head(text)) \notin DOMAIN outputs
         THEN <<KeyOf(Head(text))>> \o MissingKeys(Tail(text), outputs)
         ELSE MissingKeys(Tail(text), outputs)

\* outputsRegex.ReplaceAllStringFunc: every match replaced by its value.
RECURSIVE ReplaceOutputs(_, _)
ReplaceOutputs(text, outputs) ==
    IF text = <<>> THEN <<>>
    ELSE IF IsOutputsToken(Head(text)) /\ KeyOf(Head(text)) \in DOMAIN outputs
         THEN outputs[KeyOf(Head(text))] \o ReplaceOutputs(Tail(text), outputs)
         ELSE <<Head(text)>> \o ReplaceOutputs(Tail(text), outputs)

\* strings.ReplaceAll(result, "${self.id}", id).
RECURSIVE ReplaceId(_, _)
ReplaceId(text, id) ==
    IF text = <<>> THEN <<>>
    ELSE IF Head(text) = IdToken
         THEN id \o ReplaceId(Tail(text), id)
         ELSE <<Head(text)>> \o ReplaceId(Tail(text), id)

\* InterpolateString with a missing key replaced by the empty string and no
\* error reported.
RECURSIVE ElideOutputs(_, _)
ElideOutputs(text, outputs) ==
    IF text = <<>> THEN <<>>
    ELSE IF IsOutputsToken(Head(text))
         THEN (IF KeyOf(Head(text)) \in DOMAIN outputs
               THEN outputs[KeyOf(Head(text))] ELSE <<>>)
              \o ElideOutputs(Tail(text), outputs)
         ELSE <<Head(text)>> \o ElideOutputs(Tail(text), outputs)

InterpolateStringEliding(text, ictx) ==
    [value |-> ReplaceId(ElideOutputs(text, ictx.Outputs), ictx.ID), err |-> None]

\* InterpolateString without the replacement of ${self.id}.
InterpolateStringKeepingId(text, ictx) ==
    IF text = <<>> THEN [value |-> text, err |-> None]
    ELSE LET missing == MissingKeys(text, ictx.Outputs) IN
         IF missing # <<>>
         THEN [value |-> <<>>, err |-> Some(missing[Len(missing)])]
         ELSE [value |-> ReplaceOutputs(text, ictx.Outputs), err |-> None]

InterpolateString(text, ictx) ==
    IF text = <<>> THEN [value |-> text, err |-> None]
    ELSE LET missing == MissingKeys(text, ictx.Outputs) IN
         IF missing # <<>>
         THEN [value |-> <<>>, err |-> Some(missing[Len(missing)])]
         ELSE [value |-> ReplaceId(ReplaceOutputs(text, ictx.Outputs), ictx.ID),
               err |-> None]

\* InterpolateMap ranges over the map in Go's unspecified order and returns
\* at the first value that fails: any failing entry's error can be the one
\* returned.
InterpolateMapErrs(m, ictx) ==
    {InterpolateString(m[k], ictx).err : k \in DOMAIN m} \ {None}
InterpolateMapValue(m, ictx) ==
    [k \in DOMAIN m |-> InterpolateString(m[k], ictx).value]

\* InterpolateHeaderBlocks walks the blocks in order and returns at the first
\* value that fails.
RECURSIVE InterpolateHeaderBlocks(_, _)
InterpolateHeaderBlocks(blocks, ictx) ==
    IF blocks = <<>> THEN [value |-> <<>>, err |-> None]
    ELSE LET h == InterpolateString(Head(blocks).Value, ictx) IN
         IF ~IsNull(h.err) THEN [value |-> <<>>, err |-> h.err]
         ELSE LET rest == InterpolateHeaderBlocks(Tail(blocks), ictx) IN
              IF ~IsNull(rest.err) THEN [value |-> <<>>, err |-> rest.err]
              ELSE [value |-> <<[Name |-> Head(blocks).Name, Value |-> h.value]>>
                              \o rest.value,
                    err |-> None]

BuildInterpolationContextFromState(st) ==
    [ID |-> st.Id, Outputs |-> st.Outputs, StatusCode |-> st.StatusCode]

----------------------------------------------------------------------------
\* Request building: the ways BuildRequest fails.  The token "%zz" is a
\* malformed percent escape, which url.Parse rejects; "{}" is the one JSON
\* document of the token alphabet.

UrlParses(url) == \A i \in 1..Len(url) : url[i] # "%zz"
IsValidJson(text) == text = <<"{}">>
IsSet(v) == ~IsNull(v) /\ Value(v) # <<>>

\* The file system: the one path that can be opened, and what it holds.
ReadableFile == <<"f">>
FileContents == <<"x">>

\* http.CanonicalHeaderKey on the header names of the model.
CanonicalHeaderKey(name) ==
    CASE name = "content-type" -> "Content-Type"
      [] name = "authorization" -> "Authorization"
      [] name = "x-id" -> "X-Id"
      [] name = "x-tok" -> "X-Tok"
      [] name = "retry-after" -> "Retry-After"
      [] name = "etag" -> "Etag"
      [] OTHER -> name

\* base64.StdEncoding.EncodeToString, kept symbolic.
Base64(text) == "b64(" \o text \o ")"

NoHeaderValues == [k \in {} |-> <<>>]

\* A map's entries under lower-cased keys, one value each.  The maps of the
\* model have keys whose lower-case forms differ.
LowerCased(m) ==
    [lk \in {ToLower(k) : k \in DOMAIN m}
       |-> <<m[CHOOSE k \in DOMAIN m : ToLower(k) = lk]>>]

\* The entries of b over those of a.
Overwrite(a, b) ==
    [k \in DOMAIN a \cup DOMAIN b |-> IF k \in DOMAIN b THEN b[k] ELSE a[k]]

\* Header blocks append to the values of their lower-cased name.
RECURSIVE AddHeaderBlocks(_, _)
AddHeaderBlocks(headers, blocks) ==
    IF blocks = <<>> THEN headers
    ELSE LET key == ToLower(Head(blocks).Name)
             existing == IF key \in DOMAIN headers THEN headers[key] ELSE <<>>
         IN  AddHeaderBlocks(Overwrite(headers,
                                       [k \in {key} |-> Append(existing, Head(blocks).Value)]),
                             Tail(blocks))

\* The merge of provider default headers, request headers and header blocks.
MergeHeaders(cfg) ==
    LET defaults == IF ~IsNull(cfg.ProviderDefaults)
                       /\ ~IsNull(Value(cfg.ProviderDefaults).DefaultHeaders)
                    THEN LowerCased(Value(Value(cfg.ProviderDefaults).DefaultHeaders))
                    ELSE NoHeaderValues
        resource == IF IsNull(cfg.Headers) THEN NoHeaderValues
                    ELSE LowerCased(Value(cfg.Headers))
    IN  AddHeaderBlocks(Overwrite(defaults, resource), cfg.HeaderBlocks)

\* req.Header.Add of every merged value: the values under canonical names.
ApplyHeaders(headers) ==
    [c \in {CanonicalHeaderKey(k) : k \in DOMAIN headers}
       |-> headers[CHOOSE k \in DOMAIN headers : CanonicalHeaderKey(k) = c]]

\* req.Header.Set: the one value replaces the values of the name.
HeaderSet(header, name, value) == Overwrite(header, [k \in {name} |-> <<value>>])

BasicCredential(auth) == <<"Basic ", Base64(auth.Username \o ":" \o auth.Password)>>
BearerCredential(token) == <<"Bearer ", token>>

\* The Authorization header set from basic auth: the request's block if
\* there is one, else the provider's; a block with an empty username or
\* password sets nothing.
SetBasicAuth(header, cfg) ==
    IF ~IsNull(cfg.BasicAuth)
    THEN IF Value(cfg.BasicAuth).Username # "" /\ Value(cfg.BasicAuth).Password # ""
         THEN HeaderSet(header, "Authorization", BasicCredential(Value(cfg.BasicAuth)))
         ELSE header
    ELSE IF ~IsNull(cfg.ProviderDefaults) /\ ~IsNull(Value(cfg.ProviderDefaults).BasicAuth)
    THEN LET auth == Value(Value(cfg.ProviderDefaults).BasicAuth) IN
         IF auth.Username # "" /\ auth.Password # ""
         THEN HeaderSet(header, "Authorization", BasicCredential(auth))
         ELSE header
    ELSE header

\* The Authorization header set from a bearer token, after basic auth: the
\* request's token if it is not empty, else the provider's if there is one.
SetBearerToken(header, cfg) ==
    IF ~IsNull(cfg.BearerToken) /\ Value(cfg.BearerToken) # ""
    THEN HeaderSet(header, "Authorization", BearerCredential(Value(cfg.BearerToken)))
    ELSE IF ~IsNull(cfg.ProviderDefaults) /\ ~IsNull(Value(cfg.ProviderDefaults).BearerToken)
    THEN HeaderSet(header, "Authorization",
                   BearerCredential(Value(Value(cfg.ProviderDefaults).BearerToken)))
    ELSE header

\* contentTypeSet: body_json is the body and the request headers map has
\* no non-empty entry named exactly Content-Type.
ContentTypeSet(cfg) ==
    /\ ~IsSet(cfg.Body) /\ IsSet(cfg.BodyJson)
    /\ \/ IsNull(cfg.Headers)
       \/ "Content-Type" \notin DOMAIN Value(cfg.Headers)
       \/ Value(cfg.Headers)["Content-Type"] = <<>>

\* The header of the built request.
RequestHeader(cfg) ==
    LET merged == MergeHeaders(cfg)
        typed == IF ContentTypeSet(cfg)
                 THEN Overwrite(merged, [k \in {"content-type"} |-> <<<<"application/json">>>>])
                 ELSE merged
    IN  SetBearerToken(SetBasicAuth(ApplyHeaders(typed), cfg), cfg)

\* BuildRequest without the check that at most one body is set.
BuildRequestAnyBodies(cfg) ==
    LET url == IF IsNull(cfg.Url) THEN <<>> ELSE Value(cfg.Url)
    IN
    IF ~UrlParses(url) THEN [req |-> None, err |-> Some("invalid URL")]
    ELSE IF ~IsSet(cfg.Body) /\ IsSet(cfg.BodyJson) /\ ~IsValidJson(Value(cfg.BodyJson))
    THEN [req |-> None, err |-> Some("invalid JSON in body_json")]
    ELSE IF ~IsSet(cfg.Body) /\ ~IsSet(cfg.BodyJson) /\ IsSet(cfg.BodyFile)
            /\ Value(cfg.BodyFile) # ReadableFile
    THEN [req |-> None, err |-> Some("failed to open body_file")]
    ELSE [req |-> Some([Url |-> url,
                        Body |-> IF IsSet(cfg.Body) THEN Value(cfg.Body)
                                 ELSE IF IsSet(cfg.BodyJson) THEN Value(cfg.BodyJson)
                                 ELSE IF IsSet(cfg.BodyFile) THEN FileContents
                                 ELSE <<>>,
                        BodyReader |-> IF IsSet(cfg.Body) THEN Value(cfg.Body)
                                       ELSE IF IsSet(cfg.BodyJson) THEN Value(cfg.BodyJson)
                                       ELSE IF IsSet(cfg.BodyFile) THEN FileContents
                                       ELSE <<>>,
                        Headers |-> cfg.Headers,
                        HeaderBlocks |-> cfg.HeaderBlocks,
                        Query |-> cfg.Query,
                        Header |-> RequestHeader(cfg)]),
          err |-> None]

BuildRequest(cfg) ==
    LET bodyCount == (IF IsSet(cfg.Body) THEN 1 ELSE 0)
                     + (IF IsSet(cfg.BodyJson) THEN 1 ELSE 0)
                     + (IF IsSet(cfg.BodyFile) THEN 1 ELSE 0)
        url == IF IsNull(cfg.Url) THEN <<>> ELSE Value(cfg.Url)
    IN
    IF ~UrlParses(url) THEN [req |-> None, err |-> Some("invalid URL")]
    ELSE IF bodyCount > 1
    THEN [req |-> None, err |-> Some("only one of body, body_json, or body_file can be set")]
    ELSE IF ~IsSet(cfg.Body) /\ IsSet(cfg.BodyJson) /\ ~IsValidJson(Value(cfg.BodyJson))
    THEN [req |-> None, err |-> Some("invalid JSON in body_json")]
    ELSE IF ~IsSet(cfg.Body) /\ ~IsSet(cfg.BodyJson) /\ IsSet(cfg.BodyFile)
            /\ Value(cfg.BodyFile) # ReadableFile
    THEN [req |-> None, err |-> Some("failed to open body_file")]
    ELSE [req |-> Some([Url |-> url,
                        Body |-> IF IsSet(cfg.Body) THEN Value(cfg.Body)
                                 ELSE IF IsSet(cfg.BodyJson) THEN Value(cfg.BodyJson)
                                 ELSE IF IsSet(cfg.BodyFile) THEN FileContents
                                 ELSE <<>>,
                        BodyReader |-> IF IsSet(cfg.Body) THEN Value(cfg.Body)
                                       ELSE IF IsSet(cfg.BodyJson) THEN Value(cfg.BodyJson)
                                       ELSE IF IsSet(cfg.BodyFile) THEN FileContents
                                       ELSE <<>>,
                        Headers |-> cfg.Headers,
                        HeaderBlocks |-> cfg.HeaderBlocks,
                        Query |-> cfg.Query,
                        Header |-> RequestHeader(cfg)]),
          err |-> None]

----------------------------------------------------------------------------
\* Extraction.

EmptyOutputs == [k \in {} |-> ""]

\* The string an extracted JSON value is stored as.
ExtractedString(v) ==
    CASE v.t = "string" -> v.str
      [] v.t = "bool" -> IF v.bool THEN "true" ELSE "false"
      [] v.t = "number" -> FormatG(v.num)
      [] v.t = "null" -> ""
      [] v.t = "object" -> "{...}"
      [] OTHER -> "[...]"

\* The value of one extract block; json_path is kept parsed, the empty
\* path standing for the empty string.
ExtractOne(res, extract) ==
    LET jsonSet == ~IsNull(extract.JsonPath) /\ Value(extract.JsonPath) # <<>>
        headerSet == ~IsNull(extract.Header) /\ Value(extract.Header) # ""
        hasJsonData == res.Body.kind # "empty" /\ Unmarshal(res.Body).ok
        extracted == evaluateJsonPath(Unmarshal(res.Body).value, Value(extract.JsonPath))
        found == {k \in DOMAIN res.Headers : EqualFold(k, Value(extract.Header))}
    IN  IF jsonSet /\ ~hasJsonData THEN ""
        ELSE IF jsonSet /\ ~extracted.ok THEN ""
        ELSE IF headerSet
        THEN IF found # {} THEN res.Headers[CHOOSE k \in found : TRUE] ELSE ""
        ELSE IF jsonSet THEN ExtractedString(extracted.value)
        ELSE ""

\* The loop over the extract blocks with the first value of a name kept.
RECURSIVE ExtractIntoKeepingFirst(_, _, _)
ExtractIntoKeepingFirst(outputs, res, extractBlocks) ==
    IF extractBlocks = <<>> THEN outputs
    ELSE LET extract == Head(extractBlocks) IN
         IF IsNull(extract.Name) \/ Value(extract.Name) = ""
              \/ Value(extract.Name) \in DOMAIN outputs
         THEN ExtractIntoKeepingFirst(outputs, res, Tail(extractBlocks))
         ELSE ExtractIntoKeepingFirst(
                  Overwrite(outputs, [k \in {Value(extract.Name)} |-> ExtractOne(res, extract)]),
                  res, Tail(extractBlocks))

\* The loop over the extract blocks: a block without a name is skipped,
\* a later block overwrites the value of an earlier one of the same name.
RECURSIVE ExtractInto(_, _, _)
ExtractInto(outputs, res, extractBlocks) ==
    IF extractBlocks = <<>> THEN outputs
    ELSE LET extract == Head(extractBlocks) IN
         IF IsNull(extract.Name) \/ Value(extract.Name) = ""
         THEN ExtractInto(outputs, res, Tail(extractBlocks))
         ELSE ExtractInto(
                  Overwrite(outputs, [k \in {Value(extract.Name)} |-> ExtractOne(res, extract)]),
                  res, Tail(extractBlocks))

ExtractValues(res, extractBlocks) ==
    [outputs |-> ExtractInto(EmptyOutputs, res, extractBlocks), err |-> None]

----------------------------------------------------------------------------
\* Expectations.

RECURSIVE MissingHeaders(_, _)
MissingHeaders(required, headers) ==
    IF required = <<>> THEN <<>>
    ELSE (IF \E k \in DOMAIN headers : EqualFold(k, Head(required))
          THEN <<>> ELSE <<"header " \o Head(required)>>)
         \o MissingHeaders(Tail(required), headers)

\* The list of failed checks; the empty list is a nil error.
ValidateExpectations(res, expectOpt) ==
    IF IsNull(expectOpt) THEN <<>>
    ELSE LET e == Value(expectOpt) IN
         (IF ~IsNull(e.StatusCodes) /\ res.StatusCode \notin SeqToSet(Value(e.StatusCodes))
          THEN <<"status">> ELSE <<>>)
         \o (IF ~IsNull(e.HeaderPresent)
             THEN MissingHeaders(Value(e.HeaderPresent), res.Headers) ELSE <<>>)

----------------------------------------------------------------------------
\* The configurations and prior states the operations are run on.

Ops == {"create", "read", "update", "delete"}

TimeoutValues == {"1ms", "bad"}
ParseDurationOk(v) == v = "1ms"

\* Every timeouts block: each entry unset, a duration, or text that is not one.
TimeoutsModels ==
    {None} \cup {Some(t) : t \in [Ops -> {None} \cup {Some(v) : v \in TimeoutValues}]}

\* No timeouts block, or one that sets the four entries.
AllOrNoTimeouts == {None, Some([o \in Ops |-> Some("1ms")])}

RetryModels ==
    {None} \cup
    {Some(r) : r \in [Attempts : {Some(a) : a \in 0..MaxAttempts},
                      MinDelayMs : {Some(0), Some(100)},
                      MaxDelayMs : {None},
                      Backoff : {None},
                      Jitter : {Some(FALSE)},
                      RetryOnStatusCodes : {None, Some(<<200>>)},
                      RespectRetryAfter : {None}]}

RetryUntilModels ==
    {None, Some([StatusCodes |-> Some(<<200>>), JsonPathEquals |-> None,
                 HeaderEquals |-> None, BodyRegex |-> None])}

ExpectModels == {None, Some([StatusCodes |-> Some(<<200>>), HeaderPresent |-> None])}

RootConfigs ==
    [Url : {Some(<<"x">>)}, Body : {None}, BodyJson : {None}, BodyFile : {None},
     Headers : {None}, HeaderBlocks : {<<>>}, Query : {None},
     BasicAuth : {None}, BearerToken : {None}, ProviderDefaults : {None},
     StoreResponseBody : {None}, ExtractBlocks : {<<>>},
     Retry : RetryModels, RetryUntil : RetryUntilModels, Expect : ExpectModels]

\* A retry block that allows one retry.
OneRetry ==
    Some([Attempts |-> Some(2), MinDelayMs |-> Some(100), MaxDelayMs |-> None,
          Backoff |-> None, Jitter |-> Some(FALSE), RetryOnStatusCodes |-> None,
          RespectRetryAfter |-> None])

PlainConfig ==
    [Url |-> Some(<<"x">>), Body |-> None, BodyJson |-> None, BodyFile |-> None,
     Headers |-> None, HeaderBlocks |-> <<>>, Query |-> None,
     BasicAuth |-> None, BearerToken |-> None, ProviderDefaults |-> None,
     StoreResponseBody |-> None, ExtractBlocks |-> <<>>,
     Retry |-> None, RetryUntil |-> None, Expect |-> None]

\* on_destroy blocks: a URL that is plain, templated or unparseable, and at
\* most MaxTemplated of the optional template-bearing fields.
DestroyConfigs ==
    {d \in [Url : {Some(<<"x">>), Some(<<"x", OutputsToken("k1")>>),
                   Some(<<"x", IdToken>>), Some(<<"%zz">>)},
            Body : {None, Some(<<"x", OutputsToken("k1")>>)},
            BodyJson : {None, Some(<<OutputsToken("k1")>>)},
            BodyFile : {None},
            Headers : {None, Some([h \in {"X-Tok"} |-> <<OutputsToken("k1")>>])},
            HeaderBlocks : {<<>>, <<[Name |-> "X-Id", Value |-> <<OutputsToken("k1")>>]>>},
            Query : {None, Some([q \in {"id"} |-> <<OutputsToken("k1")>>])},
            BasicAuth : {None}, BearerToken : {None}, ProviderDefaults : {None},
            StoreResponseBody : {None}, ExtractBlocks : {<<>>},
            Retry : {None, OneRetry},
            RetryUntil : RetryUntilModels,
            Expect : ExpectModels] :
       /\ (IF IsNull(d.Body) THEN 0 ELSE 1) + (IF IsNull(d.BodyJson) THEN 0 ELSE 1)
          + (IF IsNull(d.Headers) THEN 0 ELSE 1) + (IF d.HeaderBlocks = <<>> THEN 0 ELSE 1)
          + (IF IsNull(d.Query) THEN 0 ELSE 1) <= MaxTemplated
       /\ IsNull(d.Retry) => IsNull(d.RetryUntil)}

NoOutputs == [k \in {} |-> <<>>]

\* Outputs a prior apply can have stored.
OutputsSets ==
    {NoOutputs, [k \in {"k1"} |-> <<"v">>], [k \in {"k1"} |-> <<"{}">>]}

\* The state a create without extract blocks and without
\* store_response_body leaves: the body is stored.
PriorState(outputs) ==
    [Id |-> <<"abc">>, StatusCode |-> 200, LastAttemptCount |-> 1,
     LastError |-> None, ResponseBody |-> Some(EmptyBody), Outputs |-> outputs]


----------------------------------------------------------------------------
\* The handlers.

Diag(summary, detail) == [summary |-> summary, detail |-> detail]

\* The timeouts entry a handler derives its context from: set, and a duration
\* time.ParseDuration accepts.
TimeoutFrom(m, entry) ==
    IF ~IsNull(m.Timeouts) /\ ~IsNull(Value(m.Timeouts)[entry])
       /\ ParseDurationOk(Value(Value(m.Timeouts)[entry]))
    THEN entry ELSE "none"

\* BuildRequest, BuildRetryConfig, BuildRetryUntilConfig and the entry of
\* ExecuteRequestWithRetry, common to the four handlers.
BuildAndEnter(cfg, from, buildSummary) ==
    LET b == BuildRequest(cfg)
        rc == BuildRetryConfig(cfg.Retry)
        ruc == BuildRetryUntilConfig(cfg.RetryUntil)
    IN
    IF ~IsNull(b.err)
    THEN /\ diags' = Append(diags, Diag(buildSummary, Value(b.err)))
         /\ pc' = "done"
         /\ UNCHANGED <<httpReq, retryConfig, retryUntilConfig, ctxFrom, attempt>>
    ELSE /\ httpReq' = b.req
         /\ retryConfig' = rc
         /\ retryUntilConfig' = ruc
         /\ ctxFrom' = from
         /\ pc' = IF IsNull(rc) /\ IsNull(ruc) THEN "single" ELSE "attempt"
         /\ attempt' = IF IsNull(rc) /\ IsNull(ruc) THEN 0 ELSE 1
         /\ UNCHANGED diags

CreateBegin ==
    /\ op = "create" /\ pc = "begin"
    /\ BuildAndEnter(model.Config, TimeoutFrom(model, "create"), "Failed to build request")
    /\ UNCHANGED <<op, model, state, prior, ctxDone, lastErr, lastResult,
                   retryAfter, result, delay, ret, calls, responded, sleeps>>

ReadBegin ==
    /\ op = "read" /\ pc = "begin"
    /\ IF IsNull(model.ReadMode) \/ Value(model.ReadMode) = "none"
       THEN /\ pc' = "done"
            /\ state' = state
            /\ UNCHANGED <<diags, httpReq, retryConfig, retryUntilConfig, ctxFrom, attempt>>
       ELSE /\ BuildAndEnter(model.Config, TimeoutFrom(model, "update"),
                             "Failed to build request")
            /\ UNCHANGED state
    /\ UNCHANGED <<op, model, prior, ctxDone, lastErr, lastResult,
                   retryAfter, result, delay, ret, calls, responded, sleeps>>

UpdateBegin ==
    /\ op = "update" /\ pc = "begin"
    /\ BuildAndEnter(model.Config, TimeoutFrom(model, "read"), "Failed to build request")
    /\ UNCHANGED <<op, model, state, prior, ctxDone, lastErr, lastResult,
                   retryAfter, result, delay, ret, calls, responded, sleeps>>

\* The interpolation steps of Delete, in the order the handler runs them.
\* Each element is one way they can end: the expanded configuration, or the
\* diagnostic summary and the missing key of the step that failed.
ExpandDestroyConfig(dc, ictx) ==
    LET u == IF IsNull(dc.Url) THEN [value |-> <<>>, err |-> None]
             ELSE InterpolateString(Value(dc.Url), ictx)
        hErrs == IF IsNull(dc.Headers) \/ DOMAIN Value(dc.Headers) = {} THEN {}
                 ELSE InterpolateMapErrs(Value(dc.Headers), ictx)
        hb == InterpolateHeaderBlocks(dc.HeaderBlocks, ictx)
        qErrs == IF IsNull(dc.Query) \/ DOMAIN Value(dc.Query) = {} THEN {}
                 ELSE InterpolateMapErrs(Value(dc.Query), ictx)
        b == IF IsNull(dc.Body) THEN [value |-> <<>>, err |-> None]
             ELSE InterpolateString(Value(dc.Body), ictx)
        bj == IF IsNull(dc.BodyJson) THEN [value |-> <<>>, err |-> None]
              ELSE InterpolateString(Value(dc.BodyJson), ictx)
        Failed(summary, e) == [cfg |-> dc, err |-> e, summary |-> summary]
    IN
    IF ~IsNull(u.err) THEN {Failed("Failed to interpolate destroy URL", u.err)}
    ELSE IF hErrs # {}
    THEN {Failed("Failed to interpolate destroy headers", e) : e \in hErrs}
    ELSE IF ~IsNull(hb.err)
    THEN {Failed("Failed to interpolate destroy headers", hb.err)}
    ELSE IF qErrs # {}
    THEN {Failed("Failed to interpolate destroy query", e) : e \in qErrs}
    ELSE IF ~IsNull(b.err) THEN {Failed("Failed to interpolate destroy body", b.err)}
    ELSE IF ~IsNull(bj.err)
    THEN {Failed("Failed to interpolate destroy body_json", bj.err)}
    ELSE {[cfg |-> [dc EXCEPT
                      !.Url = IF IsNull(dc.Url) THEN None ELSE Some(u.value),
                      !.Headers = IF IsNull(dc.Headers) THEN None
                                  ELSE Some(InterpolateMapValue(Value(dc.Headers), ictx)),
                      !.HeaderBlocks = hb.value,
                      !.Query = IF IsNull(dc.Query) THEN None
                                ELSE Some(InterpolateMapValue(Value(dc.Query), ictx)),
                      !.Body = IF IsNull(dc.Body) THEN None ELSE Some(b.value),
                      !.BodyJson = IF IsNull(dc.BodyJson) THEN None ELSE Some(bj.value)],
           err |-> None, summary |-> ""]}

\* The host keeps the state entry whatever Delete returns.
HostKeepsState(st, ds) == st

\* What the host does with the state entry when Delete returns: removed
\* unless the response carries an error diagnostic.
HostRemovesState(st, ds) == IF ds = <<>> THEN None ELSE st

\* Delete up to the entry of the retry loop.
DeleteBegin ==
    /\ op = "delete" /\ pc = "begin"
    /\ IF IsNull(model.OnDestroy)
       THEN /\ pc' = "done"
            /\ state' = HostRemovesState(state, diags)
            /\ UNCHANGED <<diags, httpReq, retryConfig, retryUntilConfig, ctxFrom, attempt>>
       ELSE /\ \E x \in ExpandDestroyConfig(Value(model.OnDestroy),
                            BuildInterpolationContextFromState(Value(state))) :
                 IF ~IsNull(x.err)
                 THEN /\ diags' = Append(diags, Diag(x.summary, Value(x.err)))
                      /\ pc' = "done"
                      /\ UNCHANGED <<httpReq, retryConfig, retryUntilConfig,
                                     ctxFrom, attempt>>
                 ELSE BuildAndEnter(x.cfg, "none", "Failed to build destroy request")
            /\ UNCHANGED state
    /\ UNCHANGED <<op, model, prior, ctxDone, lastErr, lastResult,
                   retryAfter, result, delay, ret, calls, responded, sleeps>>

----------------------------------------------------------------------------
\* ExecuteRequestWithRetry.

\* The deadline of the context the retry loop runs under elapses.
DeadlineExpire ==
    /\ ctxFrom # "none" /\ ~ctxDone
    /\ pc \in {"single", "attempt", "sleep", "returned"}
    /\ ctxDone' = TRUE
    /\ UNCHANGED <<op, model, state, prior, diags, pc, ctxFrom, httpReq, retryConfig,
                   retryUntilConfig, attempt, lastErr, lastResult, retryAfter,
                   result, delay, ret, calls, responded, sleeps>>

\* Neither retry nor retry_until: one ExecuteRequest, returned as it is.
ExecuteOnce ==
    /\ pc = "single"
    /\ \E out \in OutcomesOf(Value(httpReq)) :
         \E unread \in ReadersAfter(Value(httpReq), out) :
         LET er == ExecuteRequest(out) IN
         /\ ret' = [result |-> Some(er.result), err |-> er.err]
         /\ result' = Some(er.result)
         /\ responded' = (responded \/ IsNull(er.err))
         /\ httpReq' = Some([Value(httpReq) EXCEPT !.BodyReader = unread])
    /\ calls' = calls + 1
    /\ pc' = "returned"
    /\ UNCHANGED <<op, model, state, prior, diags, ctxFrom, ctxDone,
                   retryConfig, retryUntilConfig, attempt, lastErr, lastResult,
                   retryAfter, delay, sleeps>>

\* One iteration of the loop: the transport call and what follows it, up to
\* the return or the select.
Attempt ==
    /\ pc = "attempt"
    /\ \E out \in OutcomesOf(Value(httpReq)), roll \in 0..(Pow2(RandBits) - 1) :
       \E unread \in ReadersAfter(Value(httpReq), out) :
       \E it \in {LoopIteration(EngineRetryConfig(retryConfig, retryUntilConfig),
                                retryUntilConfig, attempt,
                                EngineAttempts(EngineRetryConfig(retryConfig,
                                                                 retryUntilConfig)),
                                ExecuteRequest(out), retryAfter, lastErr,
                                lastResult, roll)} :
         /\ result' = Some(it.result)
         /\ responded' = (responded \/ IsNull(ExecuteRequest(out).err))
         /\ httpReq' = Some([Value(httpReq) EXCEPT !.BodyReader = unread])
         /\ lastErr' = it.lastErr
         /\ lastResult' = it.lastResult
         /\ retryAfter' = it.retryAfter
         /\ delay' = it.delay
         /\ IF it.next = "return"
            THEN /\ ret' = [result |-> Some(it.result), err |-> it.err]
                 /\ pc' = "returned"
                 /\ sleeps' = sleeps
            ELSE /\ ret' = ret
                 /\ pc' = "sleep"
                 /\ sleeps' = sleeps + 1
    /\ calls' = calls + 1
    /\ UNCHANGED <<op, model, state, prior, diags, ctxFrom, ctxDone,
                   retryConfig, retryUntilConfig, attempt>>

\* The select between ctx.Done() and time.After(delay).  A done context wins
\* against a timer that has not fired; with a zero delay both are ready and
\* the runtime picks either.
SelectWinners ==
    IF ~ctxDone THEN {"timer"}
    ELSE IF delay > 0 THEN {"ctx"} ELSE {"ctx", "timer"}

Sleep ==
    /\ pc = "sleep"
    /\ \E winner \in SelectWinners :
         LET rc == EngineRetryConfig(retryConfig, retryUntilConfig)
             attempts == EngineAttempts(rc)
         IN
         IF winner = "ctx"
         THEN /\ ret' = [result |-> result, err |-> Some("context deadline exceeded")]
              /\ pc' = "returned"
              /\ UNCHANGED <<attempt, lastResult>>
         ELSE /\ lastResult' = result
              /\ attempt' = attempt + 1
              /\ IF attempt + 1 <= attempts
                 THEN /\ pc' = "attempt"
                      /\ ret' = ret
                 ELSE /\ pc' = "returned"
                      /\ ret' = Exhausted(retryUntilConfig, attempts, lastErr, result)
    /\ UNCHANGED <<op, model, state, prior, diags, ctxFrom, ctxDone, httpReq,
                   retryConfig, retryUntilConfig, lastErr, retryAfter, result,
                   delay, calls, responded, sleeps>>

----------------------------------------------------------------------------
\* The handlers after ExecuteRequestWithRetry has returned.

LastErrorOf(res) == IF res.Error # "" THEN Some(res.Error) ELSE None

\* storeBody of the resource with extract blocks not taken into account.
StoreBodyIgnoringExtract(cfg) ==
    IF ~IsNull(cfg.StoreResponseBody) THEN Value(cfg.StoreResponseBody) ELSE TRUE

\* storeBody of the resource: the explicit store_response_body, else false
\* with extract blocks and true without.
StoreBody(cfg) ==
    IF ~IsNull(cfg.StoreResponseBody) THEN Value(cfg.StoreResponseBody)
    ELSE IF Len(cfg.ExtractBlocks) > 0 THEN FALSE
    ELSE TRUE

\* storeBody of the data source: the explicit store_response_body, else
\* false.
DataSourceStoreBody(cfg) ==
    IF ~IsNull(cfg.StoreResponseBody) THEN Value(cfg.StoreResponseBody) ELSE FALSE

\* The outputs attribute: the extracted values as strings of the state.
OutputsMap(res, cfg) ==
    LET extractedOutputs == ExtractValues(res, cfg.ExtractBlocks).outputs IN
    [k \in DOMAIN extractedOutputs |->
       IF extractedOutputs[k] = "" THEN <<>> ELSE <<extractedOutputs[k]>>]

FinishUnchanged ==
    UNCHANGED <<op, model, prior, ctxFrom, ctxDone, httpReq, retryConfig,
                retryUntilConfig, attempt, lastErr, lastResult, retryAfter,
                result, delay, ret, calls, responded, sleeps>>

CreateFinish ==
    /\ op = "create" /\ pc = "returned"
    /\ pc' = "done"
    /\ IF ~IsNull(ret.err)
       THEN /\ diags' = Append(diags, Diag(IF ctxDone THEN "Request timeout"
                                           ELSE "Request failed", Value(ret.err)))
            /\ UNCHANGED state
       ELSE LET res == Value(ret.result)
                failed == ValidateExpectations(res, model.Config.Expect)
            IN
            IF failed # <<>>
            THEN /\ diags' = Append(diags, Diag("Expectation validation failed", failed))
                 /\ UNCHANGED state
            ELSE /\ state' = Some([Id |-> <<"id16">>,
                                   StatusCode |-> res.StatusCode,
                                   LastAttemptCount |-> res.AttemptCount,
                                   LastError |-> LastErrorOf(res),
                                   ResponseBody |-> IF StoreBody(model.Config)
                                                    THEN Some(res.Body) ELSE None,
                                   Outputs |-> OutputsMap(res, model.Config)])
                 /\ UNCHANGED diags
    /\ FinishUnchanged

\* Read does not validate expectations.
ReadFinish ==
    /\ op = "read" /\ pc = "returned"
    /\ pc' = "done"
    /\ IF ~IsNull(ret.err)
       THEN /\ diags' = Append(diags, Diag(IF ctxDone THEN "Request timeout"
                                           ELSE "Request failed", Value(ret.err)))
            /\ UNCHANGED state
       ELSE LET res == Value(ret.result) IN
            /\ state' = Some([Value(state) EXCEPT
                                !.StatusCode = res.StatusCode,
                                !.LastAttemptCount = res.AttemptCount,
                                !.LastError = LastErrorOf(res),
                                !.ResponseBody = IF StoreBody(model.Config)
                                                 THEN Some(res.Body) ELSE @,
                                !.Outputs = OutputsMap(res, model.Config)])
            /\ UNCHANGED diags
    /\ FinishUnchanged

UpdateFinish ==
    /\ op = "update" /\ pc = "returned"
    /\ pc' = "done"
    /\ IF ~IsNull(ret.err)
       THEN /\ diags' = Append(diags, Diag("Request failed", Value(ret.err)))
            /\ UNCHANGED state
       ELSE LET res == Value(ret.result)
                failed == ValidateExpectations(res, model.Config.Expect)
            IN
            IF failed # <<>>
            THEN /\ diags' = Append(diags, Diag("Expectation validation failed", failed))
                 /\ UNCHANGED state
            ELSE /\ state' = Some([Value(state) EXCEPT
                                     !.StatusCode = res.StatusCode,
                                     !.LastAttemptCount = res.AttemptCount,
                                     !.LastError = LastErrorOf(res),
                                     !.ResponseBody = IF StoreBody(model.Config)
                                                      THEN Some(res.Body) ELSE None,
                                     !.Outputs = OutputsMap(res, model.Config)])
                 /\ UNCHANGED diags
    /\ FinishUnchanged

\* The data source reads its configuration, runs the request without a
\* timeout of its own and writes what it read.
DataSourceBegin ==
    /\ op = "data" /\ pc = "begin"
    /\ BuildAndEnter(model.Config, "none", "Failed to build request")
    /\ UNCHANGED <<op, model, state, prior, ctxDone, lastErr, lastResult,
                   retryAfter, result, delay, ret, calls, responded, sleeps>>

DataSourceFinish ==
    /\ op = "data" /\ pc = "returned"
    /\ pc' = "done"
    /\ IF ~IsNull(ret.err)
       THEN /\ diags' = Append(diags, Diag("Request failed", Value(ret.err)))
            /\ UNCHANGED state
       ELSE LET res == Value(ret.result)
                failed == ValidateExpectations(res, model.Config.Expect)
            IN
            IF failed # <<>>
            THEN /\ diags' = Append(diags, Diag("Expectation validation failed", failed))
                 /\ UNCHANGED state
            ELSE /\ state' = Some([Id |-> <<"hash16">>,
                                   StatusCode |-> res.StatusCode,
                                   LastAttemptCount |-> res.AttemptCount,
                                   LastError |-> LastErrorOf(res),
                                   ResponseBody |-> IF DataSourceStoreBody(model.Config)
                                                    THEN Some(res.Body) ELSE None,
                                   Outputs |-> OutputsMap(res, model.Config)])
                 /\ UNCHANGED diags
    /\ FinishUnchanged

\* Delete returns with an error diagnostic to keep the state entry, and
\* without one to let the host remove it.
DeleteFinish ==
    /\ op = "delete" /\ pc = "returned"
    /\ pc' = "done"
    /\ IF ~IsNull(ret.err)
       THEN /\ diags' = Append(diags, Diag("Destroy request failed", Value(ret.err)))
            /\ UNCHANGED state
       ELSE LET failed == ValidateExpectations(Value(ret.result),
                                               Value(model.OnDestroy).Expect)
            IN
            IF failed # <<>>
            THEN /\ diags' = Append(diags, Diag("Destroy expectation validation failed",
                                                failed))
                 /\ UNCHANGED state
            ELSE /\ state' = HostRemovesState(state, diags)
                 /\ UNCHANGED diags
    /\ FinishUnchanged

----------------------------------------------------------------------------
\* Specifications.

InitEngine ==
    /\ diags = <<>>
    /\ pc = "begin"
    /\ ctxFrom = "none"
    /\ ctxDone = FALSE
    /\ httpReq = None
    /\ retryConfig = None
    /\ retryUntilConfig = None
    /\ attempt = 0
    /\ lastErr = None
    /\ lastResult = None
    /\ retryAfter = RetryAfterEmpty
    /\ result = None
    /\ delay = 0
    /\ ret = [result |-> None, err |-> None]
    /\ calls = 0
    /\ responded = FALSE
    /\ sleeps = 0

\* Create, Read and Update of a resource without on_destroy.
Init ==
    /\ op \in {"create", "read", "update"}
    /\ \E cfg \in RootConfigs, t \in AllOrNoTimeouts,
          rm \in {None, Some("none"), Some("refresh")} :
         /\ op # "read" => rm = None
         /\ model = [Config |-> cfg, ReadMode |-> rm, Timeouts |-> t, OnDestroy |-> None]
    /\ state = IF op = "create" THEN None ELSE Some(PriorState(NoOutputs))
    /\ prior = state
    /\ InitEngine

Next ==
    \/ CreateBegin
    \/ ReadBegin
    \/ UpdateBegin
    \/ DeadlineExpire
    \/ ExecuteOnce
    \/ Attempt
    \/ Sleep
    \/ CreateFinish
    \/ ReadFinish
    \/ UpdateFinish

Spec == Init /\ [][Next]_vars

\* Delete of a resource, with and without on_destroy.
InitDestroy ==
    /\ op = "delete"
    /\ \E d \in {None} \cup {Some(x) : x \in DestroyConfigs} :
         model = [Config |-> PlainConfig, ReadMode |-> None, Timeouts |-> None,
                  OnDestroy |-> d]
    /\ \E o \in OutputsSets : state = Some(PriorState(o))
    /\ prior = state
    /\ InitEngine

NextDestroy ==
    \/ DeleteBegin
    \/ ExecuteOnce
    \/ Attempt
    \/ Sleep
    \/ DeleteFinish

SpecDestroy == InitDestroy /\ [][NextDestroy]_vars

\* The four operations under every timeouts block.
InitTimeouts ==
    /\ op \in Ops
    /\ \E t \in TimeoutsModels, r \in {None, OneRetry} :
         model = [Config |-> [PlainConfig EXCEPT !.Retry = r],
                  ReadMode |-> IF op = "read" THEN Some("refresh") ELSE None,
                  Timeouts |-> t,
                  OnDestroy |-> IF op = "delete"
                                THEN Some([PlainConfig EXCEPT !.Retry = r])
                                ELSE None]
    /\ state = IF op = "create" THEN None ELSE Some(PriorState(NoOutputs))
    /\ prior = state
    /\ InitEngine

NextTimeouts ==
    \/ CreateBegin
    \/ ReadBegin
    \/ UpdateBegin
    \/ DeleteBegin
    \/ DeadlineExpire
    \/ ExecuteOnce
    \/ Attempt
    \/ Sleep
    \/ CreateFinish
    \/ ReadFinish
    \/ UpdateFinish
    \/ DeleteFinish

SpecTimeouts == InitTimeouts /\ [][NextTimeouts]_vars

\* The retry blocks CalculateDelay is exercised under: few or many attempts,
\* a minimum delay below and above the cap, every backoff strategy.
DelayRetryModels ==
    {Some([Attempts |-> Some(a), MinDelayMs |-> Some(mn), MaxDelayMs |-> Some(mx),
           Backoff |-> Some(b), Jitter |-> Some(j), RetryOnStatusCodes |-> None,
           RespectRetryAfter |-> Some(r)]) :
       a \in {MaxAttempts, PollingDefaultRetryConfig.Attempts},
       mn \in {0, 100, 1000}, mx \in {200, 5000},
       b \in {"exponential", "linear", "fixed"}, j \in BOOLEAN, r \in BOOLEAN}

\* The policies the engine can hold: the polling default, the defaults of an
\* empty retry block, and the blocks above.
DelayPolicies ==
    {PollingDefaultRetryConfig,
     Value(BuildRetryConfig(Some([Attempts |-> None, MinDelayMs |-> None,
                                  MaxDelayMs |-> None, Backoff |-> None,
                                  Jitter |-> None, RetryOnStatusCodes |-> None,
                                  RespectRetryAfter |-> None])))}
      \cup {Value(BuildRetryConfig(m)) : m \in DelayRetryModels}

\* Retry-After values of a response: none, integer seconds (zero, positive,
\* negative, and 9223372037, whose nanoseconds exceed an int64), dates in a
\* supported layout after, at and before now, a date in another layout,
\* white space, and other text.
RetryAfterValues ==
    {RetryAfterEmpty, RetryAfterSecs(0), RetryAfterSecs(2), RetryAfterSecs(-5),
     RetryAfterSecs64(<<32005, 9665, 2, 0>>),
     RetryAfterDate("RFC1123", 3), RetryAfterDate("RFC850", 0),
     RetryAfterDate("ANSIC", -3), RetryAfterDate("RFC3339", 3),
     RetryAfterBlank, RetryAfterBad}

\* CalculateDelay applied to attempt numbers 1, 2, ... in turn, as the loop
\* of ExecuteRequestWithRetry calls it before every attempt but the first.
InitDelay ==
    /\ op = "create"
    /\ model = [Config |-> PlainConfig, ReadMode |-> None, Timeouts |-> None,
                OnDestroy |-> None]
    /\ state = None
    /\ prior = None
    /\ diags = <<>>
    /\ pc = "delay"
    /\ ctxFrom = "none"
    /\ ctxDone = FALSE
    /\ httpReq = None
    /\ \E rc \in DelayPolicies : retryConfig = Some(rc)
    /\ retryUntilConfig = None
    /\ attempt = 0
    /\ lastErr = None
    /\ lastResult = None
    /\ retryAfter \in RetryAfterValues
    /\ result = None
    /\ delay = 0
    /\ ret = [result |-> None, err |-> None]
    /\ calls = 0
    /\ responded = FALSE
    /\ sleeps = 0

CalculateDelayStep ==
    /\ pc = "delay"
    /\ attempt + 1 < EngineAttempts(Value(retryConfig))
    /\ attempt' = attempt + 1
    /\ \E roll \in 0..(Pow2(RandBits) - 1) :
         delay' = CalculateDelay(Value(retryConfig), attempt', retryAfter, roll)
    /\ UNCHANGED <<op, model, state, prior, diags, pc, ctxFrom, ctxDone, httpReq,
                   retryConfig, retryUntilConfig, lastErr, lastResult, retryAfter,
                   result, ret, calls, responded, sleeps>>

NextDelay == CalculateDelayStep

SpecDelay == InitDelay /\ [][NextDelay]_vars

\* Retry blocks with every field absent or set, the delays on either side
\* of the defaults, the status list absent, empty and non-empty.
PolicyRetryModels ==
    {Some([Attempts |-> a, MinDelayMs |-> mn, MaxDelayMs |-> mx, Backoff |-> b,
           Jitter |-> j, RetryOnStatusCodes |-> c, RespectRetryAfter |-> r]) :
       a \in {None, Some(0)}, mn \in {None, Some(0), Some(6000)},
       mx \in {None, Some(50)}, b \in {None, Some(""), Some("linear")},
       j \in {None, Some(FALSE)}, c \in {None, Some(<<>>), Some(<<404>>)},
       r \in {None, Some(FALSE)}}

\* Create up to the policy the engine runs under; a request without retry
\* and retry_until runs to its end.
InitPolicy ==
    /\ op = "create"
    /\ \E r \in {None} \cup PolicyRetryModels, ru \in RetryUntilModels :
         model = [Config |-> [PlainConfig EXCEPT !.Retry = r, !.RetryUntil = ru],
                  ReadMode |-> None, Timeouts |-> None, OnDestroy |-> None]
    /\ state = None
    /\ prior = None
    /\ InitEngine

NextPolicy ==
    \/ CreateBegin
    \/ ExecuteOnce
    \/ CreateFinish

SpecPolicy == InitPolicy /\ [][NextPolicy]_vars

\* The bodies of the model: none, text that is not JSON, and JSON objects
\* without "id" and with "id" a number or a string.
NoFields == [k \in {} |-> JNull]
Bodies ==
    {EmptyBody, TextBody, JsonBody(JObject(NoFields)),
     JsonBody(JObject([k \in {"id"} |-> JNumber(5)])),
     JsonBody(JObject([k \in {"id"} |-> JString("5")]))}

\* Responses for the expectations: a status, response headers under
\* their canonical names, and a body.
ExpectResults ==
    {[StatusCode |-> sc, Headers |-> [h \in hs |-> "v"],
      AttemptCount |-> 1, Error |-> "", Body |-> b] :
       sc \in {200, 500}, hs \in SUBSET {"X-Id", "Content-Type"}, b \in Bodies}

\* Expect blocks: every list absent, empty or set, header names in any case.
ExpectBlocks ==
    {Some([StatusCodes |-> sc, HeaderPresent |-> hp, JsonPathExists |-> jp,
           JsonPathEquals |-> je]) :
       sc \in {None, Some(<<>>), Some(<<200>>), Some(<<200, 204>>)},
       hp \in {None, Some(<<>>), Some(<<"x-id">>), Some(<<"X-ID", "Content-Type">>),
               Some(<<"ETag", "X-Id">>)},
       jp \in {None, Some(<<<<Key("id")>>>>)},
       je \in {None, Some([q \in {<<Key("id")>>} |-> "5"])}}

\* ValidateExpectations applied to a response the engine returned.
InitExpect ==
    /\ op = "create"
    /\ \E e \in {None} \cup ExpectBlocks :
         model = [Config |-> [PlainConfig EXCEPT !.Expect = e], ReadMode |-> None,
                  Timeouts |-> None, OnDestroy |-> None]
    /\ state = None
    /\ prior = None
    /\ diags = <<>>
    /\ pc = "expect"
    /\ ctxFrom = "none"
    /\ ctxDone = FALSE
    /\ httpReq = None
    /\ retryConfig = None
    /\ retryUntilConfig = None
    /\ attempt = 0
    /\ lastErr = None
    /\ lastResult = None
    /\ retryAfter = RetryAfterEmpty
    /\ \E res \in ExpectResults : result = Some(res)
    /\ delay = 0
    /\ ret = [result |-> result, err |-> None]
    /\ calls = 1
    /\ responded = TRUE
    /\ sleeps = 0

\* The error of ValidateExpectations is the list of its failure messages.
ValidateStep ==
    /\ pc = "expect"
    /\ pc' = "validated"
    /\ \E failed \in {ValidateExpectations(Value(result), model.Config.Expect)} :
         diags' = IF failed = <<>> THEN diags
                  ELSE Append(diags, Diag("Expectation validation failed", failed))
    /\ UNCHANGED <<op, model, state, prior, ctxFrom, ctxDone, httpReq, retryConfig,
                   retryUntilConfig, attempt, lastErr, lastResult, retryAfter,
                   result, delay, ret, calls, responded, sleeps>>

NextExpect == ValidateStep

SpecExpect == InitExpect /\ [][NextExpect]_vars

\* Responses for the poll condition: the bodies above and bodies whose
\* "id" is a bool, the string "true", or another string.
PollResults ==
    {[StatusCode |-> sc, Headers |-> h, Body |-> b, AttemptCount |-> 1, Error |-> ""] :
       sc \in {200, 503},
       h \in {NoHeaders, [k \in {"X-Id"} |-> "v"], [k \in {"X-Id"} |-> "w"]},
       b \in Bodies \cup {JsonBody(JObject([k \in {"id"} |-> v])) :
                            v \in {JBool(TRUE), JString("true"), JString("abc")}}}

\* retry_until blocks: every sub-condition absent, empty or set; expected
\* literals that are JSON numbers, strings and bools and one that is not
\* JSON; a path the bodies do not have; header names in either case; a
\* pattern that does not compile.
PollModels ==
    {Some([StatusCodes |-> sc, JsonPathEquals |-> je, HeaderEquals |-> he,
           BodyRegex |-> re]) :
       sc \in {None, Some(<<>>), Some(<<200>>)},
       je \in {None, Some(NoEntries)}
              \cup {Some([q \in {<<Key("id")>>} |-> l]) :
                      l \in {"5", "\"5\"", "true", "abc"}}
              \cup {Some([q \in {<<Key("data"), Key("id")>>} |-> "5"])},
       he \in {None, Some([k \in {"x-id"} |-> "v"]), Some([k \in {"X-Id"} |-> "v"])},
       re \in {None, Some(""), Some("id"), Some(".*"), Some("(")}}

\* EvaluateRetryUntil applied to a response of the transport.
InitPoll ==
    /\ op = "create"
    /\ \E ru \in PollModels :
         /\ model = [Config |-> [PlainConfig EXCEPT !.RetryUntil = ru], ReadMode |-> None,
                     Timeouts |-> None, OnDestroy |-> None]
         /\ retryUntilConfig = BuildRetryUntilConfig(ru)
    /\ state = None
    /\ prior = None
    /\ diags = <<>>
    /\ pc = "poll"
    /\ ctxFrom = "none"
    /\ ctxDone = FALSE
    /\ httpReq = None
    /\ retryConfig = None
    /\ attempt = 1
    /\ lastErr = None
    /\ lastResult = None
    /\ retryAfter = RetryAfterEmpty
    /\ \E res \in PollResults : result = Some(res)
    /\ delay = 0
    /\ ret = [result |-> None, err |-> None]
    /\ calls = 1
    /\ responded = TRUE
    /\ sleeps = 0

EvaluateStep ==
    /\ pc = "poll"
    /\ pc' = "evaluated"
    /\ ret' = [result |-> result, err |-> None,
               evaluation |-> EvaluateRetryUntil(retryUntilConfig, Value(result))]
    /\ UNCHANGED <<op, model, state, prior, diags, ctxFrom, ctxDone, httpReq,
                   retryConfig, retryUntilConfig, attempt, lastErr, lastResult,
                   retryAfter, result, delay, calls, responded, sleeps>>

NextPoll == EvaluateStep

SpecPoll == InitPoll /\ [][NextPoll]_vars

\* Provider configurations: none, or default headers, basic auth and a
\* bearer token each absent or set.
ProviderConfigs ==
    {None} \cup
    {Some([DefaultHeaders |-> dh, BasicAuth |-> ba, BearerToken |-> bt,
           MaxResponseBodyBytes |-> 1048576, RedactHeaders |-> DefaultRedactHeaders]) :
       dh \in {None, Some([h \in {"Content-Type"} |-> <<"text/csv">>])},
       ba \in {None, Some([Username |-> "pu", Password |-> "pp"])},
       bt \in {None, Some("pt")}}

\* Requests BuildRequest is applied to: a URL that parses or not; a raw and
\* a JSON body, absent, valid or invalid; a Content-Type in the headers map
\* under either case, in a header block, or in neither; basic auth absent,
\* complete or without password; a bearer token absent, empty or set.
BuildConfigs ==
    {[PlainConfig EXCEPT !.Url = u, !.Body = b, !.BodyJson = bj, !.Headers = h,
                         !.HeaderBlocks = hb, !.BasicAuth = ba, !.BearerToken = bt,
                         !.ProviderDefaults = pd] :
       u \in {Some(<<"x">>), Some(<<"%zz">>)},
       b \in {None, Some(<<"x">>)},
       bj \in {None, Some(<<"{}">>), Some(<<"{">>)},
       h \in {None, Some([n \in {"Content-Type"} |-> <<"text/plain">>]),
              Some([n \in {"content-type"} |-> <<"text/plain">>])},
       hb \in {<<>>, <<[Name |-> "Content-Type", Value |-> <<"text/xml">>]>>},
       ba \in {None, Some([Username |-> "u", Password |-> "p"]),
               Some([Username |-> "u", Password |-> ""])},
       bt \in {None, Some(""), Some("rt")},
       pd \in ProviderConfigs}

\* BuildRequest applied to a request configuration.
InitBuild ==
    /\ op = "create"
    /\ \E cfg \in BuildConfigs :
         model = [Config |-> cfg, ReadMode |-> None, Timeouts |-> None, OnDestroy |-> None]
    /\ state = None
    /\ prior = None
    /\ diags = <<>>
    /\ pc = "build"
    /\ ctxFrom = "none"
    /\ ctxDone = FALSE
    /\ httpReq = None
    /\ retryConfig = None
    /\ retryUntilConfig = None
    /\ attempt = 0
    /\ lastErr = None
    /\ lastResult = None
    /\ retryAfter = RetryAfterEmpty
    /\ result = None
    /\ delay = 0
    /\ ret = [result |-> None, err |-> None]
    /\ calls = 0
    /\ responded = FALSE
    /\ sleeps = 0

BuildStep ==
    /\ pc = "build"
    /\ pc' = "built"
    /\ httpReq' = BuildRequest(model.Config).req
    /\ diags' = IF IsNull(BuildRequest(model.Config).err) THEN diags
                ELSE Append(diags, Diag("Failed to build request",
                                        Value(BuildRequest(model.Config).err)))
    /\ UNCHANGED <<op, model, state, prior, ctxFrom, ctxDone, retryConfig,
                   retryUntilConfig, attempt, lastErr, lastResult, retryAfter,
                   result, delay, ret, calls, responded, sleeps>>

NextBuild == BuildStep

SpecBuild == InitBuild /\ [][NextBuild]_vars

\* Requests with every way BuildRequest fails: a URL that does not parse,
\* the three bodies absent, empty or set, a JSON body that is not JSON, a
\* body file that cannot be opened.
InvalidSpecConfigs ==
    {[PlainConfig EXCEPT !.Url = u, !.Body = b, !.BodyJson = bj, !.BodyFile = bf] :
       u \in {Some(<<"x">>), Some(<<"%zz">>)},
       b \in {None, Some(<<>>), Some(<<"x">>)},
       bj \in {None, Some(<<"{}">>), Some(<<"{">>)},
       bf \in {None, Some(ReadableFile), Some(<<"nofile">>)}}

\* The four operations on those requests; Delete has them as on_destroy.
InitInvalidSpec ==
    /\ op \in Ops
    /\ \E cfg \in InvalidSpecConfigs :
         model = [Config |-> IF op = "delete" THEN PlainConfig ELSE cfg,
                  ReadMode |-> IF op = "read" THEN Some("refresh") ELSE None,
                  Timeouts |-> None,
                  OnDestroy |-> IF op = "delete" THEN Some(cfg) ELSE None]
    /\ state = IF op = "create" THEN None ELSE Some(PriorState(NoOutputs))
    /\ prior = state
    /\ InitEngine

NextInvalidSpec ==
    \/ CreateBegin
    \/ ReadBegin
    \/ UpdateBegin
    \/ DeleteBegin
    \/ ExecuteOnce
    \/ CreateFinish
    \/ ReadFinish
    \/ UpdateFinish
    \/ DeleteFinish

SpecInvalidSpec == InitInvalidSpec /\ [][NextInvalidSpec]_vars

\* Provider configurations for the transport: a cap from no byte to
\* MaxBody bytes, a redaction list naming the Authorization header in
\* either case.
TransportConfigs ==
    {Some([DefaultHeaders |-> None, BasicAuth |-> None, BearerToken |-> None,
           MaxResponseBodyBytes |-> c, RedactHeaders |-> rl]) :
       c \in 0..MaxBody,
       rl \in {DefaultRedactHeaders, <<"authorization">>, <<"X-Api-Key">>}}

\* One ExecuteRequest of a request that carries a bearer token.
InitTransport ==
    /\ op = "create"
    /\ \E pd \in TransportConfigs :
         model = [Config |-> [PlainConfig EXCEPT !.BearerToken = Some("secret"),
                                                 !.ProviderDefaults = pd],
                  ReadMode |-> None, Timeouts |-> None, OnDestroy |-> None]
    /\ state = None
    /\ prior = None
    /\ diags = <<>>
    /\ pc = "single"
    /\ ctxFrom = "none"
    /\ ctxDone = FALSE
    /\ httpReq = BuildRequest(model.Config).req
    /\ retryConfig = None
    /\ retryUntilConfig = None
    /\ attempt = 0
    /\ lastErr = None
    /\ lastResult = None
    /\ retryAfter = RetryAfterEmpty
    /\ result = None
    /\ delay = 0
    /\ ret = [result |-> None, err |-> None]
    /\ calls = 0
    /\ responded = FALSE
    /\ sleeps = 0

\* ExecuteRequest; what the transport did is kept beside what is returned.
ExecuteRequestStep ==
    /\ pc = "single"
    /\ \E out \in WireOutcomes :
         LET er == ExecuteRequestReading(out, Value(model.Config.ProviderDefaults)) IN
         /\ ret' = [result |-> Some(er.result), err |-> er.err, wire |-> out]
         /\ result' = Some(er.result)
         /\ responded' = IsNull(er.err)
    /\ calls' = calls + 1
    /\ pc' = "returned"
    /\ UNCHANGED <<op, model, state, prior, diags, ctxFrom, ctxDone, httpReq,
                   retryConfig, retryUntilConfig, attempt, lastErr, lastResult,
                   retryAfter, delay, sleeps>>

NextTransport == ExecuteRequestStep

SpecTransport == InitTransport /\ [][NextTransport]_vars

\* Responses to extract from: with and without the header X-Id; a body
\* that is empty, not JSON, or an object without "id" or with a small or a
\* large number, a string or a bool under it.
ExtractResults ==
    {[StatusCode |-> 200, Headers |-> h, Body |-> b, AttemptCount |-> 1, Error |-> ""] :
       h \in {NoHeaders, [k \in {"X-Id"} |-> "v"]},
       b \in {EmptyBody, TextBody, JsonBody(JObject(NoFields))}
             \cup {JsonBody(JObject([k \in {"id"} |-> v])) :
                     v \in {JNumber(5), JNumber(1050000), JString("s"), JBool(TRUE)}}}

\* Extract blocks: two names and the empty name; a path the body can have,
\* one it never has, or none; a header the response can have, one it never
\* has, or none.
ExtractBlocks ==
    {[Name |-> Some(n), JsonPath |-> jp, Header |-> h] :
       n \in {"a", "b"},
       jp \in {None, Some(<<Key("id")>>), Some(<<Key("zz")>>)},
       h \in {None, Some("x-id"), Some("X-Missing")}}
    \cup {[Name |-> Some(""), JsonPath |-> Some(<<Key("id")>>), Header |-> None]}

\* ExtractValues applied to a response and a list of extract blocks.
InitExtract ==
    /\ op = "create"
    /\ \E rules \in SeqsUpTo(ExtractBlocks, MaxRules) :
         model = [Config |-> PlainConfig, ReadMode |-> None, Timeouts |-> None,
                  OnDestroy |-> None, Extract |-> rules]
    /\ state = None
    /\ prior = None
    /\ diags = <<>>
    /\ pc = "extract"
    /\ ctxFrom = "none"
    /\ ctxDone = FALSE
    /\ httpReq = None
    /\ retryConfig = None
    /\ retryUntilConfig = None
    /\ attempt = 1
    /\ lastErr = None
    /\ lastResult = None
    /\ retryAfter = RetryAfterEmpty
    /\ \E res \in ExtractResults : result = Some(res)
    /\ delay = 0
    /\ ret = [result |-> None, err |-> None]
    /\ calls = 1
    /\ responded = TRUE
    /\ sleeps = 0

ExtractStep ==
    /\ pc = "extract"
    /\ pc' = "extracted"
    /\ ret' = [result |-> result,
               err |-> ExtractValues(Value(result), model.Extract).err,
               outputs |-> ExtractValues(Value(result), model.Extract).outputs]
    /\ UNCHANGED <<op, model, state, prior, diags, ctxFrom, ctxDone, httpReq,
                   retryConfig, retryUntilConfig, attempt, lastErr, lastResult,
                   retryAfter, result, delay, calls, responded, sleeps>>

NextExtract == ExtractStep

SpecExtract == InitExtract /\ [][NextExtract]_vars

\* A form InterpolateString does not recognise.
OtherToken == "${self.other}"

\* Texts, ids and outputs for InterpolateString: plain words and every
\* placeholder in the text; an id and output values that are plain or are
\* themselves the text of a placeholder.
InterpolationTexts ==
    SeqsUpTo({"x", IdToken, OutputsToken("k1"), OutputsToken("k2"), OtherToken}, MaxText)
InterpolationContexts ==
    {[ID |-> id, Outputs |-> o, StatusCode |-> 200] :
       id \in {<<"abc">>, <<IdToken>>, <<OutputsToken("k1")>>},
       o \in {NoOutputs} \cup {[k \in {"k1"} |-> v] :
                                 v \in {<<"v">>, <<IdToken>>, <<OutputsToken("k1")>>}}
              \cup {[k \in Keys |-> <<"v">>]}}

\* InterpolateString applied to a text under a context.
InitInterpolate ==
    /\ op = "delete"
    /\ \E text \in InterpolationTexts :
         model = [Config |-> PlainConfig, ReadMode |-> None, Timeouts |-> None,
                  OnDestroy |-> None, Text |-> text]
    /\ \E ictx \in InterpolationContexts :
         state = Some([PriorState(ictx.Outputs) EXCEPT !.Id = ictx.ID])
    /\ prior = state
    /\ diags = <<>>
    /\ pc = "interpolate"
    /\ ctxFrom = "none"
    /\ ctxDone = FALSE
    /\ httpReq = None
    /\ retryConfig = None
    /\ retryUntilConfig = None
    /\ attempt = 0
    /\ lastErr = None
    /\ lastResult = None
    /\ retryAfter = RetryAfterEmpty
    /\ result = None
    /\ delay = 0
    /\ ret = [result |-> None, err |-> None]
    /\ calls = 0
    /\ responded = FALSE
    /\ sleeps = 0

InterpolateStep ==
    /\ pc = "interpolate"
    /\ pc' = "interpolated"
    /\ LET r == InterpolateString(model.Text,
                                  BuildInterpolationContextFromState(Value(state)))
       IN  ret' = [result |-> None, err |-> r.err, value |-> r.value]
    /\ UNCHANGED <<op, model, state, prior, diags, ctxFrom, ctxDone, httpReq,
                   retryConfig, retryUntilConfig, attempt, lastErr, lastResult,
                   retryAfter, result, delay, calls, responded, sleeps>>

NextInterpolate == InterpolateStep

SpecInterpolate == InitInterpolate /\ [][NextInterpolate]_vars

\* Requests with store_response_body unset, true or false, without and
\* with an extract block.
StoreConfigs ==
    {[PlainConfig EXCEPT !.StoreResponseBody = sb, !.ExtractBlocks = eb] :
       sb \in {None, Some(TRUE), Some(FALSE)},
       eb \in {<<>>, <<[Name |-> Some("a"), JsonPath |-> Some(<<Key("id")>>),
                        Header |-> None]>>}}

\* read_mode as the schema admits it: any string, or unset.
ReadModes == {None, Some("none"), Some("refresh"), Some("always")}

\* Create, Read under every read_mode, Update and the data source on those
\* requests.  The state Read starts from was written under the request
\* it holds; the state Update starts from under any request.
InitStore ==
    /\ op \in {"create", "read", "update", "data"}
    /\ \E cfg \in StoreConfigs, rm \in ReadModes :
         /\ op # "read" => rm = None
         /\ model = [Config |-> cfg, ReadMode |-> rm,
                     Timeouts |-> None, OnDestroy |-> None]
         /\ \E body \in {None, Some(EmptyBody)} :
              /\ op \in {"create", "data"} => body = None
              /\ op = "read" => (~IsNull(body) <=> StoreBody(cfg))
              /\ state = IF op \in {"create", "data"} THEN None
                         ELSE Some([PriorState(NoOutputs) EXCEPT !.ResponseBody = body])
    /\ prior = state
    /\ InitEngine

NextStore ==
    \/ CreateBegin
    \/ ReadBegin
    \/ UpdateBegin
    \/ DataSourceBegin
    \/ ExecuteOnce
    \/ CreateFinish
    \/ ReadFinish
    \/ UpdateFinish
    \/ DataSourceFinish

SpecStore == InitStore /\ [][NextStore]_vars

\* The characters of a json_path: a key letter, the separator, the
\* brackets and two digits.
PathChars == {"a", ".", "[", "]", "0", "1"}

Digits == {"0", "1"}

DigitValue(c) == IF c = "1" THEN 1 ELSE 0

\* strings.Index(s, ch) for one character, counted from 0; -1 when absent.
IndexByte(s, ch) ==
    IF \E i \in 1..Len(s) : s[i] = ch
    THEN (CHOOSE i \in 1..Len(s) : s[i] = ch /\ \A j \in 1..(i - 1) : s[j] # ch) - 1
    ELSE -1

\* strings.Split(s, sep) for a one-character separator.
RECURSIVE Split(_, _)
Split(s, sep) ==
    IF IndexByte(s, sep) = -1 THEN <<s>>
    ELSE <<SubSeq(s, 1, IndexByte(s, sep))>>
         \o Split(SubSeq(s, IndexByte(s, sep) + 2, Len(s)), sep)

\* The string of a sequence of characters.
RECURSIVE Concat(_)
Concat(s) == IF s = <<>> THEN "" ELSE Head(s) \o Concat(Tail(s))

\* fmt.Sscanf(idxStr, "%d", &idx): the leading run of digits is the number
\* and what follows it is left unread; without a leading digit it fails.
RECURSIVE ScanDigits(_, _)
ScanDigits(s, acc) ==
    IF s = <<>> \/ Head(s) \notin Digits THEN acc
    ELSE ScanDigits(Tail(s), 10 * acc + DigitValue(Head(s)))

Sscanf(idxStr) ==
    IF idxStr = <<>> \/ Head(idxStr) \notin Digits THEN [ok |-> FALSE, n |-> 0]
    ELSE [ok |-> TRUE, n |-> ScanDigits(idxStr, 0)]

\* One part of the split path applied to the current value. With a "[" in
\* the part the index string is part[idx+1 : len(part)-1], a slice
\* expression that panics when idx+1 exceeds len(part)-1. A missing key, a
\* value that is no array and an index that does not scan are all errors.
evaluatePart(current, part) ==
    LET idx == IndexByte(part, "[")
        key == Concat(SubSeq(part, 1, idx))
        idxStr == SubSeq(part, idx + 2, Len(part) - 1)
    IN  IF idx = -1
        THEN LET step == evaluateSegment(current, Key(Concat(part)))
             IN [kind |-> IF step.ok THEN "value" ELSE "error", value |-> step.value]
        ELSE IF idx + 1 > Len(part) - 1 THEN [kind |-> "panic", value |-> JNull]
        ELSE IF ~Sscanf(idxStr).ok
        THEN [kind |-> "error", value |-> JNull]
        ELSE LET step == evaluateSegment(current, Indexed(key, Sscanf(idxStr).n))
             IN [kind |-> IF step.ok THEN "value" ELSE "error", value |-> step.value]

RECURSIVE evaluateParts(_, _)
evaluateParts(current, parts) ==
    IF parts = <<>> THEN [kind |-> "value", value |-> current]
    ELSE LET step == evaluatePart(current, Head(parts))
         IN IF step.kind = "value" THEN evaluateParts(step.value, Tail(parts))
            ELSE step

\* evaluateJsonPath on the path as it is written.
evaluateJsonPathText(data, path) ==
    IF path = <<>> THEN [kind |-> "value", value |-> data]
    ELSE evaluateParts(data, Split(path, "."))

\* Every path of at most MaxPath characters.
PathTexts == SeqsUpTo(PathChars, MaxPath)

\* Parsed documents: an object with an array, an array, an object in an
\* object, and a string.
PathDocuments ==
    {JObject([k \in {"a"} |-> JArray(<<JString("v"), JString("w")>>)]),
     JArray(<<JString("v")>>),
     JObject([k \in {"a"} |-> JObject([j \in {"a"} |-> JString("v")])]),
     JString("v")}

InitPath ==
    /\ op = "create"
    /\ \E path \in PathTexts, data \in PathDocuments :
         model = [Config |-> PlainConfig, ReadMode |-> None, Timeouts |-> None,
                  OnDestroy |-> None, Path |-> path, Data |-> data]
    /\ state = None
    /\ prior = None
    /\ diags = <<>>
    /\ pc = "path"
    /\ ctxFrom = "none"
    /\ ctxDone = FALSE
    /\ httpReq = None
    /\ retryConfig = None
    /\ retryUntilConfig = None
    /\ attempt = 0
    /\ lastErr = None
    /\ lastResult = None
    /\ retryAfter = RetryAfterEmpty
    /\ result = None
    /\ delay = 0
    /\ ret = [result |-> None, err |-> None]
    /\ calls = 0
    /\ responded = FALSE
    /\ sleeps = 0

EvaluatePathStep ==
    /\ pc = "path"
    /\ pc' = "evaluated"
    /\ ret' = [result |-> None, err |-> None,
               kind |-> evaluateJsonPathText(model.Data, model.Path).kind,
               value |-> evaluateJsonPathText(model.Data, model.Path).value]
    /\ UNCHANGED <<op, model, state, prior, diags, ctxFrom, ctxDone, httpReq,
                   retryConfig, retryUntilConfig, attempt, lastErr, lastResult,
                   retryAfter, result, delay, calls, responded, sleeps>>

NextPath == EvaluatePathStep

SpecPath == InitPath /\ [][NextPath]_vars

----------------------------------------------------------------------------
\* Properties of ExecuteRequestWithRetry.

Returned == pc = "returned"
Cancelled == ret.err = Some("context deadline exceeded")
AttemptsAllowed == EngineAttempts(EngineRetryConfig(retryConfig, retryUntilConfig))
ReturnedSatisfied == EvaluateRetryUntil(retryUntilConfig, Value(ret.result)).satisfied

\* C1: with retry_until set the engine makes at most `attempts` transport
\* attempts, returns success only for a response that satisfies the poll
\* condition, and when no attempt of the operation satisfied it and the
\* attempts are spent it returns the PollingExhausted error.
C1_PollingExhausted ==
    (Returned /\ ~IsNull(retryUntilConfig)) =>
        /\ calls <= AttemptsAllowed
        /\ IsNull(ret.err) => ReturnedSatisfied
        /\ (lastErr = None /\ ~Cancelled /\ calls = AttemptsAllowed /\ ~ReturnedSatisfied)
              => ret.err = Some("exhausted retry attempts, conditions not met")

\* The last allowed attempt's response does not satisfy the poll condition
\* and is returned with a nil error.
C1_UnsatisfiedReturnedAsSuccess ==
    /\ Returned /\ ~IsNull(retryUntilConfig)
    /\ calls = AttemptsAllowed /\ calls >= 2
    /\ lastErr = None /\ IsNull(ret.err) /\ ~ReturnedSatisfied

\* C2: with a retry policy and no retry_until, when every attempt's response
\* had a status in retry_on_status_codes and the attempts are spent, the
\* engine returns the RetryExhausted error, not success.
C2_RetryExhausted ==
    (/\ Returned /\ ~IsNull(retryConfig) /\ IsNull(retryUntilConfig)
     /\ lastErr = None /\ ~Cancelled /\ calls = AttemptsAllowed
     /\ ShouldRetry(Value(retryConfig), FALSE, Value(ret.result).StatusCode))
    => ret.err = Some("exhausted retry attempts, last status")

\* Every attempt answered with a retryable status, and the last response is
\* returned with a nil error.
C2_RetryableReturnedAsSuccess ==
    /\ Returned /\ ~IsNull(retryConfig) /\ IsNull(retryUntilConfig)
    /\ lastErr = None /\ calls = AttemptsAllowed /\ calls >= 2
    /\ ShouldRetry(Value(retryConfig), FALSE, Value(ret.result).StatusCode)
    /\ IsNull(ret.err)

\* C3: for a retry policy with attempts = k >= 1 and a transport that errors
\* on every attempt, the engine invokes the transport k times and returns a
\* result with attempt_count = k and the transport error wrapped with the
\* exhaustion information.
C3_TransportExhausted ==
    (/\ Returned /\ ~IsNull(retryConfig) /\ Value(retryConfig).Attempts >= 1
     /\ ~responded /\ ~Cancelled)
    => /\ calls = Value(retryConfig).Attempts
       /\ Value(ret.result).AttemptCount = Value(retryConfig).Attempts
       /\ ret.err = Some("exhausted retry attempts: wrapped")

\* Every attempt failed in the transport, and the engine returns the last
\* attempt's own result and bare error.
C3_BareTransportError ==
    /\ Returned /\ ~IsNull(retryConfig) /\ ~responded
    /\ calls = Value(retryConfig).Attempts /\ calls >= 2
    /\ Value(ret.result).AttemptCount = 1
    /\ ret.err = Some("request failed")

\* C4: whenever the engine returns a ResponseResult, its attempt_count is the
\* number of transport invocations made in the operation.
C4_AttemptCountIsCalls ==
    (Returned /\ ~IsNull(ret.result)) => Value(ret.result).AttemptCount = calls

\* A result returned after several transport invocations that counts one.
C4_CountsOne ==
    /\ Returned /\ ~IsNull(ret.result)
    /\ calls >= 2 /\ Value(ret.result).AttemptCount = 1

C9_NoAttemptAfterDeadline ==
    [][ctxDone => calls' = calls]_vars

\* The loop stands at the top of an iteration after the first, the deadline
\* already expired: its next step is the transport call.
C9_AttemptPendingPastDeadline ==
    /\ pc = "attempt" /\ ctxDone /\ calls >= 1

\* C11: with retry_until set the poll condition alone decides a non-error
\* attempt: a satisfying response is returned as success whatever its
\* status, an unsatisfying one is retried while attempts remain whatever its
\* status, and a transport error is retried while attempts remain.
C11_PollConditionDecides ==
    [][(pc = "attempt" /\ ~IsNull(retryUntilConfig) /\ calls' = calls + 1) =>
         IF Value(result').Error # ""
         THEN attempt < AttemptsAllowed => pc' = "sleep"
         ELSE IF EvaluateRetryUntil(retryUntilConfig, Value(result')).satisfied
         THEN pc' = "returned" /\ IsNull(ret'.err)
         ELSE attempt < AttemptsAllowed => pc' = "sleep"]_vars

\* A response that satisfies the poll condition and whose status is in
\* retry_on_status_codes, returned as success while attempts remain.
C11_Witness ==
    /\ Returned /\ ~IsNull(retryUntilConfig) /\ ~IsNull(retryConfig)
    /\ IsNull(ret.err) /\ ReturnedSatisfied
    /\ ShouldRetry(Value(retryConfig), FALSE, Value(ret.result).StatusCode)
    /\ calls < AttemptsAllowed


----------------------------------------------------------------------------
\* Properties of the handlers' deadlines.

\* C10: the retry loop of each operation runs under the deadline of the
\* operation's own timeouts entry.
C10_OwnTimeout ==
    pc \in {"single", "attempt", "sleep", "returned"} => ctxFrom = TimeoutFrom(model, op)

\* Update running its retry loop under the read timeout.
C10_UpdateUnderReadTimeout ==
    /\ op = "update" /\ Returned
    /\ TimeoutFrom(model, "update") = "none" /\ ctxFrom = "read"

----------------------------------------------------------------------------
\* Properties of Delete.

HasOnDestroy == op = "delete" /\ ~IsNull(model.OnDestroy)

\* The template-bearing fields of an on_destroy block.
DestroyTemplates(dc) ==
    (IF IsNull(dc.Url) THEN {} ELSE {Value(dc.Url)})
    \cup (IF IsNull(dc.Headers) THEN {}
          ELSE {Value(dc.Headers)[k] : k \in DOMAIN Value(dc.Headers)})
    \cup {dc.HeaderBlocks[i].Value : i \in 1..Len(dc.HeaderBlocks)}
    \cup (IF IsNull(dc.Query) THEN {}
          ELSE {Value(dc.Query)[k] : k \in DOMAIN Value(dc.Query)})
    \cup (IF IsNull(dc.Body) THEN {} ELSE {Value(dc.Body)})
    \cup (IF IsNull(dc.BodyJson) THEN {} ELSE {Value(dc.BodyJson)})

\* The keys the templates reference that the prior state's outputs lack.
AbsentKeys ==
    UNION {SeqToSet(MissingKeys(t, Value(prior).Outputs)) :
             t \in DestroyTemplates(Value(model.OnDestroy))}

\* The retry loop ended as a success of the engine's contract: a nil error,
\* the poll condition met if there is one, and otherwise no retryable status
\* still in force under a retry policy.
RetryLoopSucceeded ==
    /\ calls >= 1 /\ IsNull(ret.err)
    /\ IF ~IsNull(retryUntilConfig) THEN ReturnedSatisfied
       ELSE IsNull(retryConfig)
            \/ ~ShouldRetry(Value(retryConfig), FALSE, Value(ret.result).StatusCode)

DestroyStepsSucceeded ==
    /\ AbsentKeys = {}
    /\ ~IsNull(httpReq)
    /\ RetryLoopSucceeded
    /\ ValidateExpectations(Value(ret.result), Value(model.OnDestroy).Expect) = <<>>

\* C6: a Delete with on_destroy removes the state entry only if
\* interpolation, request building, the retry loop and expectation
\* validation all succeeded; otherwise it reports an error diagnostic and
\* leaves the state entry as it was.
C6_FailSafeDestroy ==
    (HasOnDestroy /\ pc = "done") =>
        /\ state = None => DestroyStepsSucceeded
        /\ ~DestroyStepsSucceeded => (state = prior /\ diags # <<>>)

\* The destroy request was answered 503 on every allowed attempt and the
\* state entry is removed without a diagnostic.
C6_RemovedAfterExhaustion ==
    /\ HasOnDestroy /\ pc = "done"
    /\ ~IsNull(retryConfig) /\ IsNull(retryUntilConfig)
    /\ calls = AttemptsAllowed /\ Value(ret.result).StatusCode = 503
    /\ state = None /\ diags = <<>>

\* C7: when a template of on_destroy references an outputs key the prior
\* state lacks, Delete makes no transport invocation, builds no request from
\* an emptied placeholder, keeps the state entry, and ends with an error
\* that names an absent key.
C7_MissingKeyAborts ==
    (HasOnDestroy /\ AbsentKeys # {}) =>
        /\ calls = 0 /\ IsNull(httpReq)
        /\ pc \in {"begin", "done"}
        /\ state = prior
        /\ pc = "done" => /\ Len(diags) = 1
                          /\ diags[1].detail \in AbsentKeys

\* A Delete that ended on a missing key of a field other than the URL.
C7_Witness ==
    /\ HasOnDestroy /\ AbsentKeys # {} /\ pc = "done"
    /\ MissingKeys(Value(Value(model.OnDestroy).Url), Value(prior).Outputs) = <<>>
    /\ Len(diags) = 1 /\ state = prior /\ calls = 0

\* C8: a Delete without on_destroy makes no transport invocation, reports
\* no error, and has its state entry removed by the host.
C8_NoOnDestroy ==
    (op = "delete" /\ IsNull(model.OnDestroy)) =>
        /\ calls = 0 /\ diags = <<>>
        /\ pc \in {"begin", "done"}
        /\ pc = "done" => state = None

\* A finished Delete without on_destroy.
C8_Witness ==
    /\ op = "delete" /\ IsNull(model.OnDestroy)
    /\ pc = "done" /\ ~IsNull(prior) /\ state = None /\ calls = 0

----------------------------------------------------------------------------
\* Properties of CalculateDelay.

\* The policy whose delays are computed.
DelayPolicy == Value(retryConfig)

\* A Retry-After value that is integer seconds or a date after now in one of
\* the layouts of an HTTP-date.
IsOverride(ra) ==
    \/ ra.kind \in {"secs", "secs64"}
    \/ ra.kind = "date" /\ ra.layout \in DateLayouts /\ ra.delta > 0

\* The delay a Retry-After value names, in milliseconds, clamped as
\* CalculateDelay is.
NamedDelay(ra) ==
    CASE ra.kind = "secs" -> IF ra.n < 0 THEN -1 ELSE ra.n * 1000
      [] ra.kind = "secs64" -> IF IsNeg64(ra.w) THEN -1 ELSE Clamp64(MulSmall64(ra.w, 1000))
      [] OTHER -> ra.delta * 1000

\* The delays the backoff computation can return for attempt n.
BackoffDelays(rc, n) ==
    {CalculateDelay(rc, n, RetryAfterEmpty, roll) : roll \in 0..(Pow2(RandBits) - 1)}

\* C12: with respect_retry_after on and a Retry-After value that is integer
\* seconds or a date in the future, CalculateDelay returns exactly that
\* delay, whatever min_delay_ms, max_delay_ms and jitter are; with an empty
\* or unparsable value, a date in the past, or respect_retry_after off, it
\* returns the computed backoff delay.
C12_RetryAfterVerbatim ==
    attempt >= 1 =>
        IF DelayPolicy.RespectRetryAfter /\ IsOverride(retryAfter)
        THEN delay = NamedDelay(retryAfter)
        ELSE delay \in BackoffDelays(DelayPolicy, attempt)

\* Retry-After: 9223372037 is honoured and the delay returned is negative.
C12_HugeSecondsWrap ==
    /\ attempt >= 1 /\ DelayPolicy.RespectRetryAfter
    /\ retryAfter = RetryAfterSecs64(<<32005, 9665, 2, 0>>)
    /\ delay < 0

\* The delay of attempt n with the jitter left out: the capped base delay.
CappedDelay(rc, n) == CalculateDelay([rc EXCEPT !.Jitter = FALSE], n, RetryAfterEmpty, 0)

\* Retry-After does not decide the delay.
NoOverride == ~(DelayPolicy.RespectRetryAfter /\ IsOverride(retryAfter))

\* C13: when Retry-After does not override, the delay of every attempt is at
\* most max_delay_ms * 1.25, at most max_delay_ms with jitter off, and the
\* jitter added to the capped base delay lies between 0 and a quarter of it.
C13_DelayCapped ==
    (attempt >= 1 /\ NoOverride) =>
        /\ delay <= (5 * DelayPolicy.MaxDelayMs) \div 4
        /\ ~DelayPolicy.Jitter => delay <= DelayPolicy.MaxDelayMs
        /\ DelayPolicy.Jitter =>
             /\ CappedDelay(DelayPolicy, attempt) >= 0
             /\ delay >= CappedDelay(DelayPolicy, attempt)
             /\ delay - CappedDelay(DelayPolicy, attempt)
                  <= CappedDelay(DelayPolicy, attempt) \div 4

\* Under the polling default policy the delay of a late attempt is negative:
\* its base delay went past the int64 range.
C13_PollingDelayNegative ==
    /\ DelayPolicy = PollingDefaultRetryConfig /\ NoOverride
    /\ attempt >= 2 /\ delay < 0

\* C14: with jitter off and no Retry-After override, under exponential and
\* linear backoff the delay of attempt n+1 is at least the delay of attempt
\* n for every attempt the configured attempts allow, and a delay that has
\* reached max_delay_ms stays there.
C14_DelayMonotone ==
    [][(pc = "delay" /\ attempt >= 1 /\ attempt' = attempt + 1
          /\ ~DelayPolicy.Jitter /\ NoOverride
          /\ DelayPolicy.Backoff \in {"exponential", "linear"}) =>
         /\ delay' >= delay
         /\ delay = DelayPolicy.MaxDelayMs => delay' = DelayPolicy.MaxDelayMs]_vars

\* Exponential backoff without jitter: an attempt within the configured
\* attempts has a delay below the cap the earlier attempts had reached.
C14_DelayDropsBelowCap ==
    /\ ~DelayPolicy.Jitter /\ NoOverride /\ DelayPolicy.Backoff = "exponential"
    /\ DelayPolicy.MinDelayMs > 0
    /\ attempt >= 2 /\ attempt < DelayPolicy.Attempts
    /\ CappedDelay(DelayPolicy, attempt - 1) = DelayPolicy.MaxDelayMs
    /\ delay < DelayPolicy.MaxDelayMs

----------------------------------------------------------------------------
\* Properties of the effective retry policy.

\* The engine has been entered with a policy.
PolicyInEffect == pc = "attempt"

EffectivePolicy == EngineRetryConfig(retryConfig, retryUntilConfig)

\* C15: every effective policy the engine runs under, a retry block laid
\* over the defaults or the polling default, has min_delay_ms <= max_delay_ms.
C15_MinAtMostMax ==
    PolicyInEffect => EffectivePolicy.MinDelayMs <= EffectivePolicy.MaxDelayMs

\* The engine runs under a policy built from a retry block whose minimum
\* delay exceeds its maximum.
C15_MinAboveMax ==
    /\ PolicyInEffect /\ ~IsNull(model.Config.Retry)
    /\ EffectivePolicy.MinDelayMs > EffectivePolicy.MaxDelayMs

\* C17: the default retry_on_status_codes are applied only when a retry
\* block is present and its retry_on_status_codes is absent; a list given
\* explicitly, the empty list included, is used as given; and without a
\* retry block and without retry_until no retry occurs.
C17_DefaultCodesOnlyWhenAbsent ==
    (pc # "begin" /\ ~IsNull(httpReq)) =>
        IF IsNull(model.Config.Retry)
        THEN /\ IsNull(retryConfig)
             /\ IsNull(model.Config.RetryUntil) => (calls <= 1 /\ sleeps = 0 /\ attempt = 0)
        ELSE Value(retryConfig).RetryOnStatusCodes =
                 IF IsNull(Value(model.Config.Retry).RetryOnStatusCodes)
                 THEN DefaultRetryOnStatusCodes
                 ELSE Value(Value(model.Config.Retry).RetryOnStatusCodes)

\* A retry block with retry_on_status_codes = [] runs under the default list.
C17_EmptyListDefaulted ==
    /\ PolicyInEffect /\ ~IsNull(model.Config.Retry)
    /\ Value(model.Config.Retry).RetryOnStatusCodes = Some(<<>>)
    /\ Value(retryConfig).RetryOnStatusCodes = DefaultRetryOnStatusCodes

----------------------------------------------------------------------------
\* Properties of polling under the default policy.

\* The engine runs with retry_until and without a retry block.
PollingByDefault ==
    /\ pc \in {"attempt", "sleep", "returned", "done"}
    /\ ~IsNull(retryUntilConfig) /\ IsNull(retryConfig)

\* C16: with retry_until set and no retry block the engine runs under
\* attempts=60, min_delay_ms=1000, max_delay_ms=5000, exponential backoff,
\* jitter on, respect_retry_after on and no retry_on_status_codes: it makes
\* at most 60 attempts, waits the delays of that policy, and returns the
\* first response that satisfies the condition.
C16_PollingDefaults ==
    [][PollingByDefault' =>
         /\ EffectivePolicy' =
              [Attempts |-> 60, MinDelayMs |-> 1000, MaxDelayMs |-> 5000,
               Backoff |-> "exponential", Jitter |-> TRUE,
               RetryOnStatusCodes |-> <<>>, RespectRetryAfter |-> TRUE]
         /\ calls' <= 60
         /\ (pc' = "sleep" /\ attempt' = 1) =>
              IF retryAfter' = RetryAfterEmpty THEN delay' \in 1000..1250
              ELSE delay' = NamedDelay(retryAfter')
         /\ (pc = "attempt" /\ calls' = calls + 1 /\ Value(result').Error = ""
               /\ EvaluateRetryUntil(retryUntilConfig, Value(result')).satisfied) =>
              (pc' = "returned" /\ ret' = [result |-> result', err |-> None])
         /\ (pc = "attempt" /\ calls' = calls + 1 /\ calls' < 60
               /\ ~(Value(result').Error = ""
                    /\ EvaluateRetryUntil(retryUntilConfig, Value(result')).satisfied)) =>
              pc' = "sleep"]_vars

\* Polling under the default policy returns after its sixtieth attempt.
C16_Witness ==
    /\ PollingByDefault /\ Returned /\ calls = 60 /\ sleeps = 59

----------------------------------------------------------------------------
\* Termination of ExecuteRequestWithRetry.

\* max(attempts, 1) of the policy in effect; 1 without a policy.
MaxInvocations ==
    IF IsNull(retryConfig) /\ IsNull(retryUntilConfig) THEN 1
    ELSE IF EffectivePolicy.Attempts > 1 THEN EffectivePolicy.Attempts ELSE 1

\* The steps the engine can still take: two for every transport call left,
\* and the sleep under way.
StepsLeft ==
    IF pc \in {"returned", "done"} THEN 0
    ELSE 2 * (MaxInvocations - calls) + (IF pc = "sleep" THEN 3 ELSE 2)

\* The transport calls and sleeps made so far fit the policy.
WithinPolicy ==
    /\ calls <= MaxInvocations
    /\ sleeps <= calls
    /\ pc = "sleep" => (calls >= 1 /\ calls < MaxInvocations /\ sleeps = calls)
    /\ pc = "attempt" => (calls < MaxInvocations /\ sleeps = calls)
    /\ (pc \in {"returned", "done"} /\ calls >= 1 /\ ~Cancelled) => sleeps = calls - 1

\* C18: under every policy and whatever the transport does, the engine
\* makes at most max(attempts, 1) transport calls and sleeps only between
\* two calls, never before the first and never after the last; every
\* completed call and sleep brings it strictly closer to its return, so it
\* terminates.
C18_BoundedAttempts ==
    [][/\ pc' # "begin" => WithinPolicy'
       /\ (pc \in {"single", "attempt", "sleep"} /\ ctxDone' = ctxDone) =>
            (StepsLeft' < StepsLeft /\ StepsLeft' >= 0)]_vars

\* The engine has returned from its last allowed attempt, having slept
\* between the attempts only.
C18_Witness ==
    /\ Returned /\ ~IsNull(retryConfig) /\ ~Cancelled
    /\ calls = MaxInvocations /\ calls >= 2 /\ sleeps = calls - 1

----------------------------------------------------------------------------
\* Properties of the expectations.

\* The engine returned a response without error and the operation's expect
\* block rejects it.
RejectedByExpect ==
    /\ ~IsNull(ret.result) /\ IsNull(ret.err) /\ ~IsNull(model.Config.Expect)
    /\ ValidateExpectations(Value(ret.result), model.Config.Expect) # <<>>

\* C19: create, read with read_mode = refresh, and update validate the
\* expect block against the response the retry loop returned before any
\* state is written: a response the expectations reject writes no state
\* and is reported.
C19_ValidatedBeforeStateWrite ==
    (pc = "done" /\ RejectedByExpect) => (state = prior /\ diags # <<>>)

\* A refresh has written the state from a response its expect block rejects.
C19_RefreshWritesRejected ==
    /\ op = "read" /\ model.ReadMode = Some("refresh")
    /\ pc = "done" /\ RejectedByExpect
    /\ state # prior /\ diags = <<>>

\* The value at a path of a body; no value when the body is not JSON.
AtPath(body, path) ==
    IF Unmarshal(body).ok THEN evaluateJsonPath(Unmarshal(body).value, path)
    ELSE PathError

\* The JSON-path checks of an expect block that a response fails: a listed
\* path that does not resolve, and a path whose value is not the expected one.
FailedJsonChecks(res, e) ==
    (IF IsNull(e.JsonPathExists) THEN {}
     ELSE {<<"json_path", i>> : i \in
             {j \in 1..Len(Value(e.JsonPathExists)) :
                ~AtPath(res.Body, Value(e.JsonPathExists)[j]).ok}})
    \cup (IF IsNull(e.JsonPathEquals) THEN {}
          ELSE {<<"json_path_equals", q>> : q \in
                  {r \in DOMAIN Value(e.JsonPathEquals) :
                     ~(AtPath(res.Body, r).ok
                       /\ valueMatches(AtPath(res.Body, r).value,
                                       Value(e.JsonPathEquals)[r]))}})

\* The checks an expect block configures that a response fails: the status
\* check, every required header the response lacks whatever the case of
\* its name, and the JSON-path checks.
FailedChecks(res, e) ==
    (IF ~IsNull(e.StatusCodes) /\ res.StatusCode \notin SeqToSet(Value(e.StatusCodes))
     THEN {<<"status">>} ELSE {})
    \cup (IF IsNull(e.HeaderPresent) THEN {}
          ELSE {<<"header", i>> : i \in
                  {j \in 1..Len(Value(e.HeaderPresent)) :
                     ToLower(Value(e.HeaderPresent)[j])
                        \notin {ToLower(k) : k \in DOMAIN res.Headers}}})
    \cup FailedJsonChecks(res, e)

\* C20: ValidateExpectations evaluates every check the expect block
\* configures and returns one error that lists every failed check; it
\* returns no error exactly when every configured check passes; required
\* headers are looked up without regard to case.
C20_AllFailuresInOneError ==
    (pc = "validated" /\ ~IsNull(model.Config.Expect)) =>
        LET failing == FailedChecks(Value(result), Value(model.Config.Expect))
        IN /\ diags = <<>> <=> failing = {}
           /\ Len(diags) <= 1
           /\ diags # <<>> => Len(diags[1].detail) = Cardinality(failing)

\* A response whose body lacks a path listed in json_path_exists passes.
C20_JsonPathCheckSkipped ==
    /\ pc = "validated" /\ ~IsNull(model.Config.Expect)
    /\ FailedChecks(Value(result), Value(model.Config.Expect)) = {<<"json_path", 1>>}
    /\ diags = <<>>

\* C21: with json_path_exists or json_path_equals configured,
\* ValidateExpectations fails when a listed path does not exist in the
\* body, when a path's value differs from the expected one, or when the
\* body is not valid JSON.
C21_JsonPathChecksEnforced ==
    (pc = "validated" /\ ~IsNull(model.Config.Expect)
       /\ FailedJsonChecks(Value(result), Value(model.Config.Expect)) # {}) =>
        diags # <<>>

\* The body is not JSON, json_path_equals is configured, and the response
\* passes.
C21_NonJsonBodyPasses ==
    /\ pc = "validated" /\ ~IsNull(model.Config.Expect)
    /\ ~IsNull(Value(model.Config.Expect).JsonPathEquals)
    /\ Value(result).Body = TextBody
    /\ diags = <<>>

----------------------------------------------------------------------------
\* Properties of the poll condition.

PollCondition == Value(retryUntilConfig)
PollResponse == Value(result)

\* The string forms of a JSON value and of an expected literal agree: the
\* literal's parsed value is the one printed when the literal is JSON.
SameStringForm(actual, literal) ==
    SprintV(actual) = (IF UnmarshalLiteral(literal).ok
                       THEN SprintV(UnmarshalLiteral(literal).value) ELSE literal)

\* Each sub-condition of the poll condition is absent or holds for the
\* response.
StatusHolds ==
    PollCondition.StatusCodes = <<>>
      \/ PollResponse.StatusCode \in SeqToSet(PollCondition.StatusCodes)
JsonPathsHold ==
    \A q \in DOMAIN PollCondition.JsonPathEquals :
        /\ AtPath(PollResponse.Body, q).ok
        /\ SameStringForm(AtPath(PollResponse.Body, q).value,
                          PollCondition.JsonPathEquals[q])
HeadersHold ==
    \A n \in DOMAIN PollCondition.HeaderEquals :
        \E k \in DOMAIN PollResponse.Headers :
            ToLower(k) = ToLower(n) /\ PollResponse.Headers[k] = PollCondition.HeaderEquals[n]
RegexHolds ==
    PollCondition.BodyRegex = ""
      \/ (RegexCompiles(PollCondition.BodyRegex)
            /\ RegexMatches(PollCondition.BodyRegex, PollResponse.Body))

\* C22: EvaluateRetryUntil returns satisfied exactly when every present
\* sub-condition (status_codes, json_path_equals, header_equals,
\* body_regex) holds for the response; its list of unsatisfied reasons is
\* empty exactly when it returns satisfied; a condition without
\* sub-conditions is satisfied by every response; header names are matched
\* without regard to case.
C22_AllSubConditions ==
    pc = "evaluated" =>
        /\ ret.evaluation.satisfied
             <=> (StatusHolds /\ JsonPathsHold /\ HeadersHold /\ RegexHolds)
        /\ ret.evaluation.satisfied <=> ret.evaluation.unsatisfied = <<>>
        /\ Len(ret.evaluation.unsatisfied)
             = Cardinality({c \in {"s", "j", "h", "r"} :
                              \/ c = "s" /\ ~StatusHolds
                              \/ c = "j" /\ ~JsonPathsHold
                              \/ c = "h" /\ ~HeadersHold
                              \/ c = "r" /\ ~RegexHolds})

\* All four sub-conditions are present and hold, the header under a name
\* of another case than the response's.
C22_Witness ==
    /\ pc = "evaluated" /\ ret.evaluation.satisfied
    /\ PollCondition.StatusCodes # <<>>
    /\ DOMAIN PollCondition.JsonPathEquals # {}
    /\ DOMAIN PollCondition.HeaderEquals = {"x-id"}
    /\ PollCondition.BodyRegex = "id"

\* The json_path_equals sub-condition was found satisfied.
JsonPathSatisfied == "json_path" \notin SeqToSet(ret.evaluation.unsatisfied)

\* C23 as stated: in json_path_equals an expected literal that parses as
\* JSON is compared structurally with the actual JSON value, so that a
\* JSON string "5" or "true" in the body does not equal the literal 5 or
\* true; a literal that is not JSON is compared with the string form of
\* the actual value.
C23_StructuralComparison ==
    (pc = "evaluated" /\ DOMAIN PollCondition.JsonPathEquals # {}) =>
        (JsonPathSatisfied <=>
           (\A q \in DOMAIN PollCondition.JsonPathEquals :
               LET actual == AtPath(PollResponse.Body, q)
                   expected == UnmarshalLiteral(PollCondition.JsonPathEquals[q])
               IN  actual.ok /\ (IF expected.ok THEN actual.value = expected.value
                                  ELSE SprintV(actual.value)
                                         = PollCondition.JsonPathEquals[q])))

\* C23 amended: an expected literal that parses as JSON is compared by the
\* string form of its parsed value with the string form of the actual
\* value, so that the JSON string "5" equals the literal 5, and the JSON
\* number 5 equals the literal "5"; a literal that is not JSON is compared
\* with the string form of the actual value.
C23_StringFormComparison ==
    (pc = "evaluated" /\ DOMAIN PollCondition.JsonPathEquals # {}) =>
        (JsonPathSatisfied <=> JsonPathsHold)

\* The body holds the JSON string "5" at a path expected to equal 5, and
\* the sub-condition is satisfied.
C23_Witness ==
    /\ pc = "evaluated" /\ JsonPathSatisfied
    /\ PollCondition.JsonPathEquals = [q \in {<<Key("id")>>} |-> "5"]
    /\ PollResponse.Body = JsonBody(JObject([k \in {"id"} |-> JString("5")]))

----------------------------------------------------------------------------
\* Properties of BuildRequest.

\* The credentials a request configuration sets: a bearer token that is
\* not empty, a basic auth block with a username and a password.
RequestBearer == ~IsNull(model.Config.BearerToken) /\ Value(model.Config.BearerToken) # ""
RequestBasic ==
    /\ ~IsNull(model.Config.BasicAuth)
    /\ Value(model.Config.BasicAuth).Username # ""
    /\ Value(model.Config.BasicAuth).Password # ""
Provider == Value(model.Config.ProviderDefaults)
ProviderBearer == ~IsNull(model.Config.ProviderDefaults) /\ ~IsNull(Provider.BearerToken)
ProviderBasic == ~IsNull(model.Config.ProviderDefaults) /\ ~IsNull(Provider.BasicAuth)

Built == pc = "built" /\ ~IsNull(httpReq)

\* The Authorization values of the built request.
AuthorizationValues ==
    IF "Authorization" \in DOMAIN Value(httpReq).Header
    THEN Value(httpReq).Header["Authorization"] ELSE <<>>

\* C24: BuildRequest chooses the credential by the precedence request
\* bearer token, request basic auth, provider bearer token, provider basic
\* auth, for every combination of the four being set or unset, and the
\* built request carries exactly one Authorization header, which holds the
\* chosen credential.
C24_AuthPrecedence ==
    (Built /\ (RequestBearer \/ RequestBasic \/ ProviderBearer \/ ProviderBasic)) =>
        AuthorizationValues =
          << IF RequestBearer THEN <<"Bearer ", Value(model.Config.BearerToken)>>
             ELSE IF RequestBasic
             THEN <<"Basic ", Base64(Value(model.Config.BasicAuth).Username \o ":"
                                       \o Value(model.Config.BasicAuth).Password)>>
             ELSE IF ProviderBearer THEN <<"Bearer ", Value(Provider.BearerToken)>>
             ELSE <<"Basic ", Base64(Value(Provider.BasicAuth).Username \o ":"
                                       \o Value(Provider.BasicAuth).Password)>> >>

\* A request with its own basic auth and no bearer token, under a provider
\* with a bearer token, is built with the provider's token.
C24_ProviderBearerOverRequestBasic ==
    /\ Built /\ RequestBasic /\ ~RequestBearer /\ ProviderBearer
    /\ AuthorizationValues = << <<"Bearer ", Value(Provider.BearerToken)>> >>

\* The Content-Type values supplied by provider defaults, the request
\* headers map and header blocks, whatever the case of the name.
SuppliedContentType ==
    IF "content-type" \in DOMAIN MergeHeaders(model.Config)
    THEN MergeHeaders(model.Config)["content-type"] ELSE <<>>

JsonBodySelected == ~IsSet(model.Config.Body) /\ IsSet(model.Config.BodyJson)

\* C25: with body_json selected, BuildRequest sets Content-Type:
\* application/json only when no Content-Type header is supplied by
\* provider defaults, the request headers map or header blocks, whatever
\* the case of the name; a supplied Content-Type is sent unchanged.
C25_ContentTypeKept ==
    (Built /\ JsonBodySelected) =>
        /\ "Content-Type" \in DOMAIN Value(httpReq).Header
        /\ Value(httpReq).Header["Content-Type"]
             = IF SuppliedContentType = <<>> THEN << <<"application/json">> >>
               ELSE SuppliedContentType

\* A Content-Type was supplied and the request is built with
\* application/json in its place.
C25_SuppliedContentTypeReplaced ==
    /\ Built /\ JsonBodySelected
    /\ SuppliedContentType # <<>>
    /\ Value(httpReq).Header["Content-Type"] = << <<"application/json">> >>
    /\ << "application/json" >> \notin SeqToSet(SuppliedContentType)

\* The request an operation builds: on_destroy for Delete.
RequestSpec == IF op = "delete" THEN Value(model.OnDestroy) ELSE model.Config

\* A body is set when it has a value that is not empty.
BodiesSet ==
    {b \in {"body", "body_json", "body_file"} :
       \/ b = "body" /\ IsSet(RequestSpec.Body)
       \/ b = "body_json" /\ IsSet(RequestSpec.BodyJson)
       \/ b = "body_file" /\ IsSet(RequestSpec.BodyFile)}

InvalidSpec ==
    \/ ~UrlParses(Value(RequestSpec.Url))
    \/ Cardinality(BodiesSet) > 1
    \/ "body_json" \in BodiesSet /\ ~IsValidJson(Value(RequestSpec.BodyJson))
    \/ "body_file" \in BodiesSet /\ Value(RequestSpec.BodyFile) # ReadableFile

\* C26: if more than one of body, body_json, body_file is set, or the URL
\* does not parse, or body_json is not JSON, or body_file cannot be read,
\* BuildRequest fails, the operation ends with that one error, the
\* transport is never invoked and no state is written.
C26_InvalidSpecEndsOperation ==
    InvalidSpec =>
        /\ calls = 0
        /\ state = prior
        /\ pc \in {"begin", "done"}
        /\ pc = "done" =>
             /\ Len(diags) = 1
             /\ diags[1].summary \in {"Failed to build request",
                                      "Failed to build destroy request"}

\* An operation on a request with two bodies has ended.
C26_Witness ==
    /\ pc = "done" /\ op = "update"
    /\ BodiesSet = {"body", "body_json"}
    /\ UrlParses(Value(RequestSpec.Url)) /\ IsValidJson(Value(RequestSpec.BodyJson))
    /\ calls = 0 /\ state = prior /\ Len(diags) = 1

----------------------------------------------------------------------------
\* Properties of ExecuteRequest.

TransportConfig == Value(model.Config.ProviderDefaults)

\* C27: when the response body is longer than max_response_body_bytes the
\* body of the result is its first max_response_body_bytes bytes followed
\* by the sentinel "... [TRUNCATED]"; a body that is not longer than the
\* cap is returned unchanged, without the sentinel.
C27_TruncationMarked ==
    (pc = "returned" /\ ret.wire.kind = "response") =>
        Value(result).Body =
          IF Len(ret.wire.body) > TransportConfig.MaxResponseBodyBytes
          THEN Append(SubSeq(ret.wire.body, 1, TransportConfig.MaxResponseBodyBytes),
                      Sentinel)
          ELSE ret.wire.body

\* A body longer than the cap is returned cut to the cap, without the
\* sentinel.
C27_CutWithoutSentinel ==
    /\ pc = "returned" /\ ret.wire.kind = "response"
    /\ TransportConfig.MaxResponseBodyBytes > 0
    /\ Len(ret.wire.body) > TransportConfig.MaxResponseBodyBytes
    /\ Value(result).Body = SubSeq(ret.wire.body, 1, TransportConfig.MaxResponseBodyBytes)

\* One text occurs within another.
Occurs(part, text) ==
    \E i \in 0..(Len(text) - Len(part)) : SubSeq(text, i + 1, i + Len(part)) = part

\* The values the request carries under the names of redact_headers,
\* whatever the case of the names.
RedactedValues ==
    {Value(httpReq).Header[n][i] :
       n \in {k \in DOMAIN Value(httpReq).Header :
                \E h \in SeqToSet(TransportConfig.RedactHeaders) : EqualFold(k, h)},
       i \in {1}}

\* C28: for every header named in redact_headers, whatever the case of the
\* name, the error string of a result does not contain the header's value
\* when the text before redaction did.
C28_ValuesRedacted ==
    (pc = "returned" /\ ret.wire.kind = "do_error") =>
        \A v \in RedactedValues :
            Occurs(v, ret.wire.text) => ~Occurs(v, Value(result).Error)

\* The error text named the header and held its value; the stored error
\* has the name replaced and the value as it was.
C28_NameRedactedValueKept ==
    /\ pc = "returned" /\ ret.wire.kind = "do_error"
    /\ ret.wire.text = <<"Authorization", "Bearer ", "secret">>
    /\ <<"Bearer ", "secret">> \in RedactedValues
    /\ Value(result).Error = <<"[REDACTED]", "Bearer ", "secret">>

----------------------------------------------------------------------------
\* Properties of ExtractValues.

RuleNames == {Value(model.Extract[i].Name) : i \in 1..Len(model.Extract)}

\* The last extract block of a name.
LastRule(name) ==
    model.Extract[CHOOSE i \in 1..Len(model.Extract) :
                    /\ Value(model.Extract[i].Name) = name
                    /\ \A j \in (i + 1)..Len(model.Extract) :
                         Value(model.Extract[j].Name) # name]

HasJsonPath(rule) == ~IsNull(rule.JsonPath) /\ Value(rule.JsonPath) # <<>>
HasHeader(rule) == ~IsNull(rule.Header) /\ Value(rule.Header) # ""

\* The response has the header a block names, whatever the case.
HeaderPresent(rule) ==
    \E k \in DOMAIN Value(result).Headers : ToLower(k) = ToLower(Value(rule.Header))

\* The source of a block is missing: its header is absent, or it has no
\* header and its path is absent or the body is not JSON, or it names
\* neither.
SourceMissing(rule) ==
    IF HasHeader(rule) THEN ~HeaderPresent(rule)
    ELSE IF HasJsonPath(rule) THEN ~AtPath(Value(result).Body, Value(rule.JsonPath)).ok
    ELSE TRUE

\* The outputs hold, for every name in them, what the last block of the
\* name extracts on its own, and the empty string when its source is
\* missing.
LastWriteWins ==
    \A n \in DOMAIN ret.outputs :
        /\ ret.outputs[n] = ExtractValues(Value(result), <<LastRule(n)>>).outputs[n]
        /\ SourceMissing(LastRule(n)) => ret.outputs[n] = ""

\* C29 as stated: ExtractValues never returns an error; the keys of the
\* outputs are exactly the names of the extract blocks; a block whose
\* source is missing maps to the empty string; of two blocks with one
\* name the later one's value is kept.
C29_KeysAreRuleNames ==
    pc = "extracted" =>
        /\ IsNull(ret.err)
        /\ DOMAIN ret.outputs = RuleNames
        /\ LastWriteWins

\* C29 amended: ExtractValues never returns an error; the keys of the
\* outputs are exactly the names of the extract blocks that are not empty,
\* a block with an empty name being skipped; a block whose source is
\* missing maps to the empty string; of two blocks with one name the later
\* one's value is kept.
C29_KeysAreNonEmptyRuleNames ==
    pc = "extracted" =>
        /\ IsNull(ret.err)
        /\ DOMAIN ret.outputs = RuleNames \ {""}
        /\ LastWriteWins

\* A block without a name before a block whose source is missing: the
\* one key is the name of the second block, and its value is empty.
C29_Witness ==
    /\ pc = "extracted"
    /\ Len(model.Extract) = 2
    /\ RuleNames = {"", "a"}
    /\ Value(model.Extract[1].Name) = ""
    /\ SourceMissing(model.Extract[2])
    /\ ret.outputs = [n \in {"a"} |-> ""]

\* C30: for an extract block with both header and json_path set, the
\* output is the value of the response header whenever the header is
\* present, whatever the case of its name, whether the path evaluates, the
\* path fails, or the body is not JSON.
C30_HeaderWins ==
    pc = "extracted" =>
        \A n \in DOMAIN ret.outputs :
            (HasHeader(LastRule(n)) /\ HasJsonPath(LastRule(n))
               /\ HeaderPresent(LastRule(n)))
              => \E k \in DOMAIN Value(result).Headers :
                     /\ ToLower(k) = ToLower(Value(LastRule(n).Header))
                     /\ ret.outputs[n] = Value(result).Headers[k]

\* The header is present and the body is not JSON: the output is empty.
C30_HeaderLostToFailedPath ==
    /\ pc = "extracted"
    /\ Len(model.Extract) = 1
    /\ HasHeader(model.Extract[1]) /\ HasJsonPath(model.Extract[1])
    /\ HeaderPresent(model.Extract[1])
    /\ Value(result).Body = TextBody
    /\ ret.outputs[Value(model.Extract[1].Name)] = ""

----------------------------------------------------------------------------
\* Properties of InterpolateString.

Expanded == pc = "interpolated" /\ IsNull(ret.err)
KnownOutputs == Value(state).Outputs

\* The placeholders of known keys.
KnownTokens == {OutputsToken(k) : k \in DOMAIN KnownOutputs}

\* The words of the output values InterpolateString has put in place of
\* a placeholder of the text.
OutputWords ==
    UNION {SeqToSet(KnownOutputs[k]) :
             k \in {j \in DOMAIN KnownOutputs : OutputsToken(j) \in SeqToSet(model.Text)}}

\* The words of all the values it has put in place of a placeholder: the
\* id stands for every ${self.id} of the text and of those output values.
SubstitutedWords ==
    OutputWords
    \cup (IF IdToken \in SeqToSet(model.Text) \cup OutputWords
          THEN SeqToSet(Value(state).Id) ELSE {})

\* The words of a text that are no placeholder InterpolateString knows.
RECURSIVE Unrecognized(_)
Unrecognized(text) ==
    IF text = <<>> THEN <<>>
    ELSE (IF Head(text) = IdToken \/ IsOutputsToken(Head(text)) THEN <<>>
          ELSE <<Head(text)>>) \o Unrecognized(Tail(text))

RECURSIVE LiteralExpansion(_)
LiteralExpansion(text) ==
    IF text = <<>> THEN <<>>
    ELSE (IF Head(text) = IdToken THEN Value(state).Id
          ELSE IF Head(text) \in KnownTokens THEN KnownOutputs[KeyOf(Head(text))]
          ELSE <<Head(text)>>) \o LiteralExpansion(Tail(text))

\* C37: InterpolateString substitutes literally and in one pass: the text
\* that enters the result as the value of an output or of the id is never
\* itself expanded, so an output value that is ${self.id} or
\* ${self.outputs.K} appears in the result as it is.
C37_SinglePass ==
    Expanded => ret.value = LiteralExpansion(model.Text)

\* The value of an output is the text ${self.id}, and the result has the
\* id in its place.
C37_OutputValueExpanded ==
    /\ Expanded
    /\ model.Text = <<OutputsToken("k1")>>
    /\ KnownOutputs = [k \in {"k1"} |-> <<IdToken>>]
    /\ Value(state).Id = <<"abc">>
    /\ ret.value = <<"abc">>

----------------------------------------------------------------------------
\* Properties of the stored response body.

\* The operation has ended and has written its state.
Succeeded == pc = "done" /\ diags = <<>> /\ calls > 0 /\ ~IsNull(state)

\* The store_response_body in effect: the explicit setting; without one,
\* for a resource false with an extract block and true without, for the
\* data source false.
EffectiveStoreResponseBody ==
    IF ~IsNull(model.Config.StoreResponseBody) THEN Value(model.Config.StoreResponseBody)
    ELSE IF op = "data" THEN FALSE
    ELSE model.Config.ExtractBlocks = <<>>

\* C32: after every successful create, refreshing read or update of a
\* resource, and every read of the data source, the stored response_body
\* is not null exactly when the store_response_body in effect is true.
C32_BodyStoredWhenInEffect ==
    Succeeded => (~IsNull(Value(state).ResponseBody) <=> EffectiveStoreResponseBody)

\* A create with an extract block and no store_response_body has stored no
\* body.
C32_Witness ==
    /\ Succeeded /\ op = "create"
    /\ IsNull(model.Config.StoreResponseBody)
    /\ model.Config.ExtractBlocks # <<>>
    /\ IsNull(Value(state).ResponseBody)

\* The JSON number the last block of a name extracts by its path alone.
ExtractsNumber(n) ==
    /\ HasJsonPath(LastRule(n)) /\ ~HasHeader(LastRule(n))
    /\ AtPath(Value(result).Body, Value(LastRule(n).JsonPath)).ok
    /\ AtPath(Value(result).Body, Value(LastRule(n).JsonPath)).value.t = "number"

\* C33: an extract block whose path resolves to a JSON number yields the
\* shortest decimal form of the number that reads back as it, without
\* padding; a number without a fraction, such as an id of 1000000 or more,
\* is its plain decimal digits and not in exponent notation.
C33_PlainDecimalDigits ==
    pc = "extracted" =>
        \A n \in DOMAIN ret.outputs :
            ExtractsNumber(n) =>
                ret.outputs[n]
                  = ToString(AtPath(Value(result).Body,
                                    Value(LastRule(n).JsonPath)).value.num)

\* The id 1050000 is extracted as 1.05e+06.
C33_ExponentNotation ==
    /\ pc = "extracted"
    /\ Len(model.Extract) = 1
    /\ ExtractsNumber("a")
    /\ Value(result).Body = JsonBody(JObject([k \in {"id"} |-> JNumber(1050000)]))
    /\ ret.outputs["a"] = "1.05e+06"

\* C34: a Delete whose on_destroy has a retry_until block removes the state
\* entry only if the last response received in that destroy satisfied every
\* sub-condition of retry_until; when the attempts are spent without the
\* condition holding the state entry is retained.
C34_RemovedOnlyWhenSatisfied ==
    (HasOnDestroy /\ pc = "done" /\ ~IsNull(retryUntilConfig) /\ calls >= 1) =>
        /\ state = None =>
               EvaluateRetryUntil(retryUntilConfig, Value(result)).satisfied
        /\ (calls = AttemptsAllowed
            /\ ~EvaluateRetryUntil(retryUntilConfig, Value(result)).satisfied) =>
               state = prior

\* Both allowed attempts of a destroy that polls for status 200 were
\* answered 503, and the state entry is removed without a diagnostic.
C34_RemovedUnsatisfied ==
    /\ HasOnDestroy /\ pc = "done"
    /\ ~IsNull(retryUntilConfig)
    /\ calls = AttemptsAllowed /\ calls = 2
    /\ IsNull(ret.err) /\ Value(result).StatusCode = 503
    /\ ~EvaluateRetryUntil(retryUntilConfig, Value(result)).satisfied
    /\ state = None /\ diags = <<>>

\* C35: every transport attempt of one operation sends the method, URL,
\* headers and complete request body of the first attempt: at each attempt
\* the request is the one that was built and its body reader still holds
\* the whole body, so a retry never transmits an empty or partly consumed
\* body.
C35_EveryAttemptSendsWholeBody ==
    [][calls' = calls + 1 =>
          /\ Value(httpReq).BodyReader = Value(httpReq).Body
          /\ [Value(httpReq') EXCEPT !.BodyReader = <<>>]
               = [Value(httpReq) EXCEPT !.BodyReader = <<>>]]_vars

\* A destroy request with a body was answered on its first attempt, which
\* drained the body reader, and the second attempt failed in the transport
\* with nothing left to send.
C35_RetryWithDrainedBody ==
    /\ HasOnDestroy /\ pc = "returned"
    /\ Value(httpReq).Body # <<>>
    /\ Value(httpReq).BodyReader = <<>>
    /\ calls = 2 /\ responded
    /\ ~IsNull(ret.err)
    /\ Value(result).Error = "transport"

\* The response of the attempt just made carried a Retry-After header.
CarriedRetryAfter(res) == "Retry-After" \in DOMAIN res.Headers

\* C36: the delay slept before attempt n+1 follows a Retry-After value only
\* if the response of attempt n itself carried the header: after a response
\* without it, or after a transport error, the delay is the one the backoff
\* computes, whatever an earlier response carried.
C36_RetryAfterOfThisResponseOnly ==
    [][(pc = "attempt" /\ pc' = "sleep" /\ ~CarriedRetryAfter(Value(result'))) =>
          delay' \in BackoffDelays(EngineRetryConfig(retryConfig, retryUntilConfig),
                                   attempt)]_vars

\* The first response carried Retry-After: 2, the second carried none, and
\* the sleep after the second is the 2000 ms of the first.
C36_StaleRetryAfterReused ==
    /\ pc = "sleep" /\ calls = 2 /\ attempt = 2
    /\ Value(result).StatusCode = 503
    /\ ~CarriedRetryAfter(Value(result))
    /\ retryAfter = RetryAfterSecs(2)
    /\ delay = 2000
    /\ delay \notin BackoffDelays(EngineRetryConfig(retryConfig, retryUntilConfig),
                                  attempt)

\* A part of a path that is a key, or a key followed by one bracketed run
\* of digits that ends the part.
WellFormedPart(part) ==
    LET idx == IndexByte(part, "[") IN
    \/ idx = -1
    \/ /\ Len(part) >= idx + 3
       /\ part[Len(part)] = "]"
       /\ \A i \in (idx + 2)..(Len(part) - 1) : part[i] \in Digits

\* C38: evaluateJsonPath returns a value or an error for every path and
\* every parsed document and never crashes; the empty path returns the
\* root, and a path with a part whose bracket is malformed (no closing
\* bracket, nothing after the opening one, an index that is no integer)
\* yields an error.
C38_TotalAndStrict ==
    pc = "evaluated" =>
        /\ ret.kind \in {"value", "error"}
        /\ model.Path = <<>> => (ret.kind = "value" /\ ret.value = model.Data)
        /\ (\E i \in 1..Len(Split(model.Path, ".")) :
               ~WellFormedPart(Split(model.Path, ".")[i])) => ret.kind = "error"

\* The path "a[" on an object whose "a" is an array: the slice of the index
\* string panics.
C38_TrailingBracketPanics ==
    /\ pc = "evaluated"
    /\ model.Path = <<"a", "[">>
    /\ model.Data = JObject([k \in {"a"} |-> JArray(<<JString("v"), JString("w")>>)])
    /\ ret.kind = "panic"

\* C39: a Read whose read_mode is unset or "none" makes no transport
\* invocation and writes back the prior state unchanged, without a
\* diagnostic; a Read makes a transport invocation only when read_mode is
\* "refresh".
C39_OnlyRefreshReExecutes ==
    op = "read" =>
        /\ (IsNull(model.ReadMode) \/ model.ReadMode = Some("none")) =>
               (calls = 0 /\ IsNull(httpReq) /\ state = prior /\ diags = <<>>)
        /\ calls > 0 => model.ReadMode = Some("refresh")

\* A Read with read_mode = "always" executed the request and wrote the new
\* status code to the state.
C39_OtherModeReExecutes ==
    /\ op = "read" /\ pc = "done"
    /\ model.ReadMode = Some("always")
    /\ calls = 1 /\ diags = <<>>
    /\ Value(state).StatusCode = 503
    /\ state # prior

====
